---- MODULE Spec2Model ----
(***************************************************************************)
(* A model of the Pocket Relay client's networking core: the Blaze packet  *)
(* codec (servers/packet.rs), the redirector connection handler            *)
(* (servers/redirector.rs), the server lookup (api.rs) and the main tunnel *)
(* handler (servers/main.rs).                                              *)
(*                                                                         *)
(* Bytes are integers 0..255.  A buffer (BytesMut, Bytes) is a sequence of *)
(* bytes, held run-length encoded: a sequence of runs <<n, v>>, n >= 1     *)
(* copies of the byte v, in which neighbouring runs hold different bytes,  *)
(* so that two buffers are equal exactly when their bytes are.  Every      *)
(* subsystem has its own specification; the variables of the other         *)
(* subsystems stay at their initial value.                                 *)
(***************************************************************************)
EXTENDS Integers, Sequences, FiniteSets, TLC

VARIABLES
    \* ---- packet codec (servers/packet.rs) ----
    encoded,    \* the packets handed to PacketCodec::encode, in order
    stream,     \* every byte the encoder has produced so far
    delivered,  \* how many bytes of the stream the decoder has received
    src,        \* the decoder's buffer (the BytesMut of PacketCodec::decode)
    out,        \* the packets PacketCodec::decode has emitted, in order
    last,       \* outcome of the latest decode call: "-", "some", "none"
    \* ---- one redirector connection (servers/redirector.rs) ----
    rpc,        \* where handle_client is: "handshake", "await" (in the
                \* select!), "send" (in framed.send), "closed"
    rres,       \* what handle_client returned: "-", "ok", "err"
    inq,        \* packets the client has sent and the handler has not read
    eof,        \* the client has closed its side of the stream
    reqs,       \* the packets the handler has read, in order
    sent,       \* the packets the handler has passed to framed.send
    now,        \* seconds since the handler entered its loop
    deadline,   \* when the sleep of the pending select! completes
    \* ---- server lookup and the shared target (api.rs, config.rs) ----
    TARGET,     \* the shared RwLock<Option<LookupData>>
    twriter,    \* the caller that holds TARGET's write guard, 0 for none
    config,     \* the connection_url of the saved config file, or None
    upc,        \* upc[c]: where try_update_host of caller c is: "idle",
                \* "lookup", "publish", "persist", "done"
    uarg,       \* uarg[c]: the arguments (target, persist) of the call
    uresp,      \* uresp[c]: the response the lookup request received
    ures,       \* ures[c]: what try_lookup_host returned
    \* ---- one connection to the main port (servers/main.rs) ----
    mpc,        \* where handle_blaze is: "listening" (not yet accepted),
                \* "accepted", "request", "upgrade", "splice", "closed"
    mwhy,       \* why handle_blaze returned: "-", "no_target", "connect",
                \* "status", "upgrade", "io", "done"
    mreqs,      \* the HTTP requests handle_blaze has issued
    mstatus,    \* the status of the response to the upgrade request
    wrote,      \* wrote[d]: every byte the source of direction d has
                \* written to its socket, in order
    pending,    \* pending[d]: bytes the source of direction d has written
                \* and the tunnel has not read
    buf,        \* buf[d]: bytes read and not yet written by the tunnel
    dst,        \* dst[d]: bytes the tunnel has written to the destination
    peof,       \* peof[d]: the source of direction d has closed its side
    ddone,      \* ddone[d]: direction d has ended and shut down its writer
    \* ---- one connection to the HTTP proxy (servers/http.rs) ----
    hpc,        \* where proxy_http is: "idle" (no request in hand), "target"
                \* (about to read TARGET), "send" (in send()), "body" (in
                \* bytes())
    hreqs,      \* the path and query of every request received, in order
    hresps,     \* what proxy_http returned for each request, in order
    houts,      \* the outbound requests issued
    hup,        \* the status and headers of the upstream response in hand
    \* ---- the QoS listener (servers/qos.rs) ----
    buffer,     \* the 20 bytes of the receive buffer
    qcache,     \* PUBLIC_ADDR_CACHE of servers/qos.rs
    qnow,       \* the system time of the QoS listener, in seconds
    qlog,       \* what the loop did with each datagram, in order
    \* ---- the public address and its callers (net.rs) ----
    cache,      \* PUBLIC_ADDR_CACHE: none for Unset, or value and expires
    creaders,   \* the callers that hold a read guard of the cache
    cwriter,    \* the caller that holds the write guard, 0 for none
    cqueue,     \* the callers waiting for a guard, in order of arrival
    apc,        \* apc[c]: where public_address of caller c is: "idle",
                \* "rwait" (in read().await), "check" (holds a read
                \* guard), "wwait" (in write().await), "probe" (holds the
                \* write guard, lookups running), "store" (assigning)
    aobs,       \* aobs[c]: the cache entry caller c read last
    aseen,      \* aseen[c]: how many writes the cache had seen then
    ares,       \* ares[c]: what the latest call of caller c returned
    aprobe,     \* aprobe[c]: what the lookups of caller c answered last
    awrites,    \* how many times the cache has been written
    acalls,     \* how many calls of public_address have been started
    anow,       \* the system time, in seconds
    \* ---- applications of xor_cipher (servers/telemetry.rs) ----
    xmsg,       \* the message the cipher was first applied to
    xkey,       \* the key
    xtext,      \* the outcome of the latest application
    xcount,     \* how many times the cipher has been applied
    \* ---- one call of decode_message (servers/telemetry.rs) ----
    dmessage,   \* the buffer handed to decode_message
    dvalues,    \* the values of the TelemetryMessage it returned
    ddecoded,   \* decode_message has returned
    \* ---- the shared target under concurrent use (api.rs) ----
    twrites,    \* the LookupData that try_update_host has stored, in order
    tobs,       \* what a listener has read from TARGET, read by read, each
                \* with the number of values stored before
    tlast,      \* the call that stored the target last: its input and its
                \* LookupData
    tplain,     \* a call without persist has stored a target
    tfailed,    \* a write of the config file has failed
    \* ---- the group of listener tasks (servers.rs) ----
    spc,        \* the statement of start_all_servers that comes next, 0
                \* when no call is under way
    sgen,       \* how many calls of start_all_servers have begun
    stasks,     \* the listener tasks that are alive, each the kind of its
                \* server and the call that spawned it
    sended,     \* the kinds whose task of the latest call has returned
    \* ---- the listeners of the process (servers/mod.rs) ----
    prunning,   \* the process runs (exit has not been called)
    lstate,     \* lstate[l]: "starting" (before bind), "listening",
                \* "failed" (bind returned an error), "returned"
                \* (start_server has left its loop)
    lshown,     \* the listeners whose failure show_error has shown
    lserved,    \* lserved[l]: the connections or datagrams l has accepted
    lerrors,    \* lerrors[l]: the errors accept (recv_from) has returned to l
    \* ---- the hosts file and its guard (hosts.rs) ----
    efile,      \* the text of the hosts file
    eorig,      \* the text of the hosts file before apply
    epc,        \* "start", "applied" (a guard is held), "failed" (apply
                \* returned None), "dropped"
    eguard,     \* the guard apply returned, if any
    edrop,      \* what drop did: "-", "kept" (the entry was there before),
                \* "removed", "failed"
    \* ---- one telemetry connection (servers/telemetry.rs) ----
    tpc,        \* where the connection's task is: "listening" (not yet
                \* accepted), "accepted", "header" and "payload" (the two
                \* read_exact of read_message), "post", "closed"
    twhy,       \* why the task returned: "-", "no_target", "read"
    turl,       \* the URL the task posts to
    tstream,    \* bytes the game has written and the task has not read
    teof,       \* the game has closed its side of the stream
    tlen,       \* the length field of the header read last
    tneed,      \* the size of the buffer the payload is read into
    tsent,      \* what the game has written, write by write
    ttaken,     \* how many bytes the task has read from the stream
    tmsgs,      \* what read_message has returned, in order
    tposts      \* the POST requests that have completed, in order

codecVars == <<encoded, stream, delivered, src, out, last>>

redirectorVars == <<rpc, rres, inq, eof, reqs, sent, now, deadline>>

lookupVars == <<TARGET, twriter, config, upc, uarg, uresp, ures>>

mainVars ==
    <<mpc, mwhy, mreqs, mstatus, wrote, pending, buf, dst, peof, ddone>>

httpVars == <<hpc, hreqs, hresps, houts, hup>>

qosVars == <<buffer, qcache, qnow, qlog>>

addrVars ==
    <<cache, creaders, cwriter, cqueue, apc, aobs, aseen, ares, aprobe,
      awrites, acalls, anow>>

cipherVars == <<xmsg, xkey, xtext, xcount>>

decodeVars == <<dmessage, dvalues, ddecoded>>

watchVars == <<twrites, tobs, tlast, tplain, tfailed>>

groupVars == <<spc, sgen, stasks, sended>>

listenersVars == <<prunning, lstate, lshown, lserved, lerrors>>

hostsVars == <<efile, eorig, epc, eguard, edrop>>

telemetryVars ==
    <<tpc, twhy, turl, tstream, teof, tlen, tneed, tsent, ttaken, tmsgs,
      tposts>>

vars ==
    <<codecVars, redirectorVars, lookupVars, mainVars, httpVars, qosVars,
      addrVars, cipherVars, decodeVars, watchVars, groupVars,
      listenersVars, hostsVars, telemetryVars>>

\* the variables an operation of one subsystem leaves alone
notCodec ==
    <<redirectorVars, lookupVars, mainVars, httpVars, qosVars, addrVars,
      cipherVars, decodeVars, watchVars, groupVars, listenersVars,
      hostsVars, telemetryVars>>

notRedirector ==
    <<codecVars, lookupVars, mainVars, httpVars, qosVars, addrVars,
      cipherVars, decodeVars, watchVars, groupVars, listenersVars,
      hostsVars, telemetryVars>>

notLookup ==
    <<codecVars, redirectorVars, mainVars, httpVars, qosVars, addrVars,
      cipherVars, decodeVars, watchVars, groupVars, listenersVars,
      hostsVars, telemetryVars>>

notMain ==
    <<codecVars, redirectorVars, lookupVars, httpVars, qosVars, addrVars,
      cipherVars, decodeVars, watchVars, groupVars, listenersVars,
      hostsVars, telemetryVars>>

notHttp ==
    <<codecVars, redirectorVars, lookupVars, mainVars, qosVars, addrVars,
      cipherVars, decodeVars, watchVars, groupVars, listenersVars,
      hostsVars, telemetryVars>>

notQos ==
    <<codecVars, redirectorVars, lookupVars, mainVars, httpVars, addrVars,
      cipherVars, decodeVars, watchVars, groupVars, listenersVars,
      hostsVars, telemetryVars>>

notAddr ==
    <<codecVars, redirectorVars, lookupVars, mainVars, httpVars, qosVars,
      cipherVars, decodeVars, watchVars, groupVars, listenersVars,
      hostsVars, telemetryVars>>

notCipher ==
    <<codecVars, redirectorVars, lookupVars, mainVars, httpVars, qosVars,
      addrVars, decodeVars, watchVars, groupVars, listenersVars, hostsVars,
      telemetryVars>>

notDecode ==
    <<codecVars, redirectorVars, lookupVars, mainVars, httpVars, qosVars,
      addrVars, cipherVars, watchVars, groupVars, listenersVars, hostsVars,
      telemetryVars>>

notWatch ==
    <<codecVars, redirectorVars, lookupVars, mainVars, httpVars, qosVars,
      addrVars, cipherVars, decodeVars, groupVars, listenersVars,
      hostsVars, telemetryVars>>

notGroup ==
    <<codecVars, redirectorVars, lookupVars, mainVars, httpVars, qosVars,
      addrVars, cipherVars, decodeVars, watchVars, listenersVars,
      hostsVars, telemetryVars>>

notListeners ==
    <<codecVars, redirectorVars, lookupVars, mainVars, httpVars, qosVars,
      addrVars, cipherVars, decodeVars, watchVars, groupVars, hostsVars,
      telemetryVars>>

notHosts ==
    <<codecVars, redirectorVars, lookupVars, mainVars, httpVars, qosVars,
      addrVars, cipherVars, decodeVars, watchVars, groupVars,
      listenersVars, telemetryVars>>

notTelemetry ==
    <<codecVars, redirectorVars, lookupVars, mainVars, httpVars, qosVars,
      addrVars, cipherVars, decodeVars, watchVars, groupVars,
      listenersVars, hostsVars>>

\* what a write of the target that is written down leaves alone
notLookupWatch ==
    <<codecVars, redirectorVars, mainVars, httpVars, qosVars, addrVars,
      cipherVars, decodeVars, groupVars, listenersVars, hostsVars,
      telemetryVars>>

None == [none |-> TRUE]

----------------------------------------------------------------------------
(* Bounds of the model                                                     *)

\* greatest number of packets written to one stream
MaxPackets == 2
\* greatest number of packets the consumer takes from one stream
MaxOut == 3
\* bytes of a stream that may be delivered in small chunks
MaxSmallFeed == 30
\* greatest number of packets a client sends on a redirector connection
MaxRequests == 3
\* the redirector's clock stops at this many seconds
MaxTime == 130
\* greatest number of requests on one connection to the HTTP proxy
MaxHttpRequests == 2

\* greatest number of datagrams the QoS listener receives
MaxDatagrams == 2
\* the system time stops at this many seconds
MaxClock == 3600

\* the callers of public_address are 1..MaxCallers
MaxCallers == 2
\* greatest number of calls of public_address
MaxAddrCalls == 3
\* the system time of the callers stops at this many seconds
MaxAddrClock == 14400

\* greatest number of bytes each side of a tunnel writes
MaxBytes == 2

----------------------------------------------------------------------------
(* servers/packet.rs                                                       *)

PacketTypes == {"Request", "Response", "Notify", "Error"}

\* `self.ty as u8`
PacketType_as_u8(ty) ==
    CASE ty = "Request"  -> 0
      [] ty = "Response" -> 16
      [] ty = "Notify"   -> 32
      [] ty = "Error"    -> 48

\* impl From<u8> for PacketType
PacketType_from(value) ==
    CASE value = 0  -> "Request"
      [] value = 16 -> "Response"
      [] value = 32 -> "Notify"
      [] value = 48 -> "Error"
      [] OTHER      -> "Request"

\* --- buffers (bytes::Bytes, bytes::BytesMut) ---

\* a.extend_from_slice(b), a.put(b)
extend(a, b) ==
    IF a = << >> THEN b
    ELSE IF b = << >> THEN a
    ELSE IF a[Len(a)][2] = b[1][2]
      THEN SubSeq(a, 1, Len(a) - 1)
           \o << <<a[Len(a)][1] + b[1][1], b[1][2]>> >>
           \o Tail(b)
      ELSE a \o b

\* the buffer that holds the bytes of the sequence s
RECURSIVE bytes(_)
bytes(s) ==
    IF s = << >> THEN << >>
    ELSE extend(<< <<1, Head(s)>> >>, bytes(Tail(s)))

\* Buf::len / Buf::remaining
RECURSIVE len(_)
len(b) == IF b = << >> THEN 0 ELSE b[1][1] + len(Tail(b))

\* the byte at offset `at` (from 0) of the buffer
RECURSIVE byte_at(_, _)
byte_at(b, at) ==
    IF at < b[1][1] THEN b[1][2] ELSE byte_at(Tail(b), at - b[1][1])

\* the first n bytes of the buffer (what split_to(n) returns)
RECURSIVE split_to(_, _)
split_to(b, n) ==
    IF n = 0 THEN << >>
    ELSE IF b[1][1] <= n THEN <<b[1]>> \o split_to(Tail(b), n - b[1][1])
    ELSE << <<n, b[1][2]>> >>

\* the buffer after n bytes were taken from its front (Buf::advance)
RECURSIVE advance(_, _)
advance(b, n) ==
    IF n = 0 THEN b
    ELSE IF b[1][1] <= n THEN advance(Tail(b), n - b[1][1])
    ELSE << <<b[1][1] - n, b[1][2]>> >> \o Tail(b)

\* BufMut::put_u16: big-endian, the value truncated to 16 bits
put_u16(v) == << (v \div 256) % 256, v % 256 >>

\* Buf::get_u16 after `at` bytes of the buffer were taken
get_u16(b, at) == byte_at(b, at) * 256 + byte_at(b, at + 1)

\* Buf::get_u8 after `at` bytes of the buffer were taken
get_u8(b, at) == byte_at(b, at)

PacketHeader(component, command, error, ty, id) ==
    [component |-> component, command |-> command, error |-> error,
     ty |-> ty, id |-> id]

\* the mutant of with_type: the error is reset instead of copied
with_type_no_error(self, ty) ==
    [component |-> self.component,
     command   |-> self.command,
     error     |-> 0,
     ty        |-> ty,
     id        |-> self.id]

with_type(self, ty) ==
    [component |-> self.component,
     command   |-> self.command,
     error     |-> self.error,
     ty        |-> ty,
     id        |-> self.id]

response(self) == with_type(self, "Response")

\* the mutant of PacketHeader_write: the threshold compared with >=
PacketHeader_write_ge(self, length) ==
    LET is_extended == length >= 65535 IN
    bytes( put_u16(length % 65536)
           \o put_u16(self.component)
           \o put_u16(self.command)
           \o put_u16(self.error)
           \o << PacketType_as_u8(self.ty) >>
           \o << IF is_extended THEN 16 ELSE 0 >>
           \o put_u16(self.id)
           \o (IF is_extended
                 THEN << (length \div 16777216) % 256,
                         (length \div 65536) % 256 >>
                 ELSE << >>) )

\* the mutant of PacketHeader_write for the low half of the length: the
\* length is cut off at 0xFFFF
PacketHeader_write_min(self, length) ==
    LET is_extended == length > 65535 IN
    bytes( put_u16(IF is_extended THEN 65535 ELSE length)
           \o put_u16(self.component)
           \o put_u16(self.command)
           \o put_u16(self.error)
           \o << PacketType_as_u8(self.ty) >>
           \o << IF is_extended THEN 16 ELSE 0 >>
           \o put_u16(self.id)
           \o (IF is_extended
                 THEN << (length \div 16777216) % 256,
                         (length \div 65536) % 256 >>
                 ELSE << >>) )

\* PacketHeader::write: the bytes appended to dst
PacketHeader_write(self, length) ==
    LET is_extended == length > 65535 IN
    bytes( put_u16(length % 65536)
           \o put_u16(self.component)
           \o put_u16(self.command)
           \o put_u16(self.error)
           \o << PacketType_as_u8(self.ty) >>
           \o << IF is_extended THEN 16 ELSE 0 >>
           \o put_u16(self.id)
           \o (IF is_extended
                 THEN << (length \div 16777216) % 256,
                         (length \div 65536) % 256 >>
                 ELSE << >>) )

\* PacketHeader::read: the result (None or header and length) and the
\* number of bytes the call has taken from the buffer (it has taken twelve
\* also when it returns None for want of the two extended bytes)
PacketHeader_read(b) ==
    IF len(b) < 12
      THEN [res |-> None, taken |-> 0]
      ELSE
        LET length      == get_u16(b, 0)
            component   == get_u16(b, 2)
            command     == get_u16(b, 4)
            error       == get_u16(b, 6)
            ty          == get_u8(b, 8)
            is_extended == (get_u8(b, 9) = 16)
            id          == get_u16(b, 10)
            header      == PacketHeader(component, command, error,
                                        PacketType_from(ty), id)
        IN  IF is_extended
              THEN IF len(b) - 12 < 2
                     THEN [res |-> None, taken |-> 12]
                     ELSE [res |-> [header |-> header,
                                    length |-> length + get_u16(b, 12)],
                           taken |-> 14]
              ELSE [res |-> [header |-> header, length |-> length],
                    taken |-> 12]

Packet(header, contents) == [header |-> header, contents |-> contents]

new_empty(header) == Packet(header, << >>)

new_response(packet, contents) == Packet(response(packet.header), contents)

response_empty(packet) == new_empty(response(packet.header))

\* Packet::read: the result (None or a packet) and the bytes taken
Packet_read(b) ==
    LET h == PacketHeader_read(b) IN
    IF h.res = None
      THEN [res |-> None, taken |-> h.taken]
      ELSE IF len(b) - h.taken < h.res.length
             THEN [res |-> None, taken |-> h.taken]
             ELSE [res |-> Packet(h.res.header,
                                  split_to(advance(b, h.taken),
                                           h.res.length)),
                   taken |-> h.taken + h.res.length]

\* Packet::write: the bytes appended to dst
Packet_write(self) ==
    extend(PacketHeader_write(self.header, len(self.contents)),
           self.contents)

\* PacketCodec::decode: reads from a clone and commits it only on Some
PacketCodec_decode(b) ==
    LET result == Packet_read(b) IN
    IF result.res # None
      THEN [res |-> result.res, src |-> advance(b, result.taken)]
      ELSE [res |-> None, src |-> b]

\* PacketCodec::encode
PacketCodec_encode(item) == Packet_write(item)

----------------------------------------------------------------------------
(* The inputs of the codec                                                 *)

\* a payload of L bytes: a first byte, a filling and a last byte
Payload(L, v) ==
    IF L = 0 THEN << >>
    ELSE IF L = 1 THEN bytes(<<v + 1>>)
    ELSE extend(extend(bytes(<<v + 1>>),
                       IF L = 2 THEN << >> ELSE << <<L - 2, v>> >>),
                bytes(<<v + 2>>))

PayloadLens == {0, 1, 65535, 65536, 70000}

\* every packet type, with two settings of the other fields
Headers ==
    { PacketHeader(5, 1, 0, t, 42) : t \in PacketTypes }
    \cup { PacketHeader(258, 65535, 513, t, 0) : t \in PacketTypes }

Fills == {0, 16}

Packets ==
    { Packet(h, Payload(L, v)) : h \in Headers, L \in PayloadLens, v \in Fills }

\* the packets of the chunked streams: two short frames, one extended
StreamPackets ==
    { Packet(PacketHeader(5, 1, 0, "Request", 42), << >>),
      Packet(PacketHeader(258, 65535, 513, "Response", 0), bytes(<<1, 2, 3>>)),
      Packet(PacketHeader(5, 2, 0, "Notify", 0), Payload(65536, 7)) }

----------------------------------------------------------------------------
(* The codec's operations                                                  *)

\* the bytes produced and not yet delivered to the decoder
Pending == len(stream) - delivered

CodecInit ==
    /\ encoded = << >>
    /\ stream = << >>
    /\ delivered = 0
    /\ src = << >>
    /\ out = << >>
    /\ last = "-"

\* Encoder<Packet>::encode(item, dst)
Encode(item) ==
    /\ encoded' = Append(encoded, item)
    /\ stream' = extend(stream, PacketCodec_encode(item))
    /\ last' = "-"
    /\ UNCHANGED <<delivered, src, out, notCodec>>

\* the transport reads k more bytes into the decoder's buffer
Feed(k) ==
    /\ k >= 1
    /\ k <= Pending
    /\ src' = extend(src, split_to(advance(stream, delivered), k))
    /\ delivered' = delivered + k
    /\ last' = "-"
    /\ UNCHANGED <<encoded, stream, out, notCodec>>

\* Decoder::decode(src)
Decode ==
    /\ Len(out) < MaxOut
    /\ LET r == PacketCodec_decode(src) IN
        /\ src' = r.src
        /\ out' = IF r.res = None THEN out ELSE Append(out, r.res)
        /\ last' = IF r.res = None THEN "none" ELSE "some"
    /\ UNCHANGED <<encoded, stream, delivered, notCodec>>

\* --- the round trip of one packet: encode, deliver whole, decode ---

EncodeOne == \E p \in Packets : encoded = << >> /\ Encode(p)

DeliverAll == Pending > 0 /\ Feed(Pending)

DecodeOne == stream # << >> /\ Pending = 0 /\ Decode


\* --- a stream of packets delivered in chunks ---

FeedSizes ==
    { k \in {1, 2, 12, 14} : delivered + k <= MaxSmallFeed }
    \cup {Pending, Pending - 1}

EncodeNext ==
    \E p \in StreamPackets : Len(encoded) < MaxPackets /\ Encode(p)

FeedChunk == \E k \in FeedSizes : Feed(k)

DecodeNext == Decode

----------------------------------------------------------------------------
(* servers/redirector.rs and constants.rs                                  *)

MAIN_PORT == 42128

\* DEFAULT_TIMEOUT, in seconds
DEFAULT_TIMEOUT == 60

\* Components::from_header: the PacketComponents derive matches the
\* header against #[component(target = 0x5)] and #[command(target = 0x1)]
Components_from_header(header) ==
    IF header.component = 5 /\ header.command = 1
      THEN [component |-> "Redirector", command |-> "GetServerInstance"]
      ELSE None

\* LocalInstance::encode: the values written to the TdfWriter, in order
LocalInstance_encode ==
    << <<"ADDR", "union_start", 0>>,
       <<"VALU", "group">>,
       <<"IP", "u32", ((127 * 256 + 0) * 256 + 0) * 256 + 1>>,
       <<"PORT", "u16", MAIN_PORT>>,
       <<"group_end">>,
       <<"SECU", "bool", FALSE>>,
       <<"XDNS", "bool", FALSE>> >>

\* packet.respond_empty()
respond_empty(packet) == response_empty(packet)

\* packet.respond(contents)
respond(packet, contents) == new_response(packet, contents)

\* the mutant of Reply: the loop goes on after the instance reply too
Reply_never_break(packet) ==
    IF Components_from_header(packet.header) = None
      THEN [packet |-> respond_empty(packet), continue |-> TRUE]
      ELSE [packet |-> respond(packet, LocalInstance_encode),
            continue |-> TRUE]

\* the mutant of Reply: the loop ends after an empty reply too
Reply_always_break(packet) ==
    IF Components_from_header(packet.header) = None
      THEN [packet |-> respond_empty(packet), continue |-> FALSE]
      ELSE [packet |-> respond(packet, LocalInstance_encode),
            continue |-> FALSE]

\* the reply handle_client makes to a packet and whether the loop goes on
\* after it (continue) or ends (break)
Reply(packet) ==
    IF Components_from_header(packet.header) = None
      THEN [packet |-> respond_empty(packet), continue |-> TRUE]
      ELSE [packet |-> respond(packet, LocalInstance_encode),
            continue |-> FALSE]

\* the packets clients send to the redirector
RedirectorRequests ==
    { Packet(PacketHeader(5, 1, 0, "Request", 42), << >>),
      Packet(PacketHeader(5, 1, 513, "Error", 7), << >>),
      Packet(PacketHeader(5, 2, 0, "Request", 1), << >>),
      Packet(PacketHeader(4, 1, 513, "Notify", 0), << >>) }

\* how far the clock moves in one step
TickSteps == {20, 59}

RedirectorInit ==
    /\ rpc = "handshake"
    /\ rres = "-"
    /\ inq = << >>
    /\ eof = FALSE
    /\ reqs = << >>
    /\ sent = << >>
    /\ now = 0
    /\ deadline = 0

\* accept.finish_accept(): on Ok the loop is entered and its first select!
\* creates sleep(DEFAULT_TIMEOUT); on Err the handler returns Ok(())
FinishAccept ==
    /\ rpc = "handshake"
    /\ \E ok \in BOOLEAN :
        IF ok
          THEN /\ rpc' = "await"
               /\ deadline' = now + DEFAULT_TIMEOUT
               /\ rres' = rres
          ELSE /\ rpc' = "closed"
               /\ rres' = "ok"
               /\ deadline' = deadline
    /\ UNCHANGED <<inq, eof, reqs, sent, now, notRedirector>>

\* the client writes a packet to the connection
ClientSend ==
    /\ rpc \in {"await", "send"}
    /\ ~eof
    /\ Len(reqs) + Len(inq) < MaxRequests
    /\ \E p \in RedirectorRequests : inq' = Append(inq, p)
    /\ UNCHANGED <<rpc, rres, eof, reqs, sent, now, deadline, notRedirector>>

\* the client closes its side of the connection
ClientClose ==
    /\ rpc \in {"await", "send"}
    /\ ~eof
    /\ eof' = TRUE
    /\ UNCHANGED <<rpc, rres, inq, reqs, sent, now, deadline, notRedirector>>

\* time passes while the handler waits in the select! with nothing to
\* read; the sleep completes at its deadline, so the handler is not left
\* waiting beyond it
Tick ==
    /\ rpc = "await"
    /\ inq = << >>
    /\ ~eof
    /\ \E d \in TickSteps \cup {deadline - now} :
        /\ d > 0
        /\ now + d <= deadline
        /\ now + d <= MaxTime
        /\ now' = now + d
    /\ UNCHANGED <<rpc, rres, inq, eof, reqs, sent, deadline, notRedirector>>

\* select!: framed.next() yields Some(Ok(packet)); the reply is built and
\* passed to framed.send
RecvPacket ==
    /\ rpc = "await"
    /\ inq # << >>
    /\ reqs' = Append(reqs, Head(inq))
    /\ inq' = Tail(inq)
    /\ sent' = Append(sent, Reply(Head(inq)).packet)
    /\ rpc' = "send"
    /\ UNCHANGED <<rres, eof, now, deadline, notRedirector>>

\* framed.send(..).await? completes: on Err the handler returns the error;
\* after an empty reply the loop continues and its select! creates a new
\* sleep(DEFAULT_TIMEOUT); after the instance reply the loop breaks
SendDone ==
    /\ rpc = "send"
    /\ \E ok \in BOOLEAN :
        IF ~ok
          THEN rpc' = "closed" /\ rres' = "err" /\ deadline' = deadline
          ELSE IF Reply(reqs[Len(reqs)]).continue
            THEN /\ rpc' = "await"
                 /\ deadline' = now + DEFAULT_TIMEOUT
                 /\ rres' = rres
            ELSE rpc' = "closed" /\ rres' = "ok" /\ deadline' = deadline
    /\ UNCHANGED <<inq, eof, reqs, sent, now, notRedirector>>

\* select!: framed.next() yields None (the stream has ended): break
RecvEnd ==
    /\ rpc = "await"
    /\ inq = << >>
    /\ eof
    /\ rpc' = "closed"
    /\ rres' = "ok"
    /\ UNCHANGED <<inq, eof, reqs, sent, now, deadline, notRedirector>>

\* select!: framed.next() yields Some(Err(err)): return Err(err)
RecvError ==
    /\ rpc = "await"
    /\ rpc' = "closed"
    /\ rres' = "err"
    /\ UNCHANGED <<inq, eof, reqs, sent, now, deadline, notRedirector>>

\* select!: the sleep completes first: break
Timeout ==
    /\ rpc = "await"
    /\ now >= deadline
    /\ rpc' = "closed"
    /\ rres' = "ok"
    /\ UNCHANGED <<inq, eof, reqs, sent, now, deadline, notRedirector>>

----------------------------------------------------------------------------
(* api.rs, constants.rs and config.rs                                      *)
(*                                                                         *)
(* A string is a sequence of pieces ("http://", "ex.test", "/"); a version *)
(* is <<major, minor, patch>>; an Option is Nothing or Some(value).        *)

Nothing == << >>

Some(value) == <<value>>

\* Version::new(0, 5, 0)
MIN_SERVER_VERSION == <<0, 5, 0>>

SERVER_IDENT == "POCKET_RELAY_SERVER"

\* the mutant of Version_lt: no version is below another
Version_lt_never(a, b) == FALSE

\* Ord for semver::Version: self < other
Version_lt(a, b) ==
    \/ a[1] < b[1]
    \/ a[1] = b[1] /\ a[2] < b[2]
    \/ a[1] = b[1] /\ a[2] = b[2] /\ a[3] < b[3]

starts_with(str, piece) == str # << >> /\ str[1] = piece

ends_with(str, piece) == str # << >> /\ str[Len(str)] = piece

\* the URL try_lookup_host requests
LookupUrl(host) ==
    LET url1 == IF ~starts_with(host, "http://")
                   /\ ~starts_with(host, "https://")
                  THEN <<"http://">> \o host
                  ELSE host
        url2 == IF ~ends_with(host, "/") THEN Append(url1, "/") ELSE url1
    IN  Append(url2, "api/server")

\* Response::error_for_status: an error for the statuses 400 to 599
error_for_status(status) == status >= 400 /\ status <= 599

\* Url::port_or_known_default
port_or_known_default(url) ==
    IF url.port # Nothing THEN url.port
    ELSE IF url.scheme = "http" THEN Some(80)
    ELSE IF url.scheme = "https" THEN Some(443)
    ELSE Nothing

\* response.json::<ServerDetails>(): the body is a JSON object whose
\* `version` is a semver string; `ident` may be absent (serde(default))
ServerDetails_from_json(body) ==
    IF body.json /\ body.version.kind = "semver"
      THEN Some([version |-> body.version.v, ident |-> body.ident])
      ELSE Nothing

Err(kind) == [err |-> kind]

Ok(value) == [ok |-> value]

\* try_lookup_host(host), given the response `resp` to its GET request
try_lookup_host(host, resp) ==
    IF ~resp.connected THEN Err(<<"ConnectionFailed">>)
    ELSE IF error_for_status(resp.status)
      THEN Err(<<"ErrorResponse", resp.status>>)
    ELSE
      LET url     == resp.url
          scheme  == url.scheme
          port    == IF port_or_known_default(url) = Nothing THEN 80
                     ELSE port_or_known_default(url)[1]
          parsed  == ServerDetails_from_json(resp.body)
          details == parsed[1]
      IN  IF url.host = Nothing THEN Err(<<"InvalidHostTarget">>)
          ELSE IF parsed = Nothing THEN Err(<<"InvalidResponse">>)
          ELSE IF details.ident = Nothing
                  \/ details.ident[1] # SERVER_IDENT
            THEN Err(<<"NotPocketRelay">>)
          ELSE IF Version_lt(details.version, MIN_SERVER_VERSION)
            THEN Err(<<"ServerOutdated", details.version,
                       MIN_SERVER_VERSION>>)
          ELSE Ok([scheme |-> scheme, host |-> url.host[1], port |-> port,
                   version |-> details.version])

\* --- the inputs of the lookup ---

\* the tasks that may call try_update_host, and the one that does where
\* the calls are not what is looked at
Updaters == {1, 2}

Callers == {1}

ConnectionUrls ==
    { <<"ex.test">>, <<"http://", "ex.test", "/">>, <<"https://", "ex.test">> }

Statuses == {200, 204, 300, 404, 500}

\* the effective URLs of a response
ResponseUrls ==
    { [scheme |-> "http", host |-> Some(<<"ex.test">>), port |-> Nothing],
      [scheme |-> "https", host |-> Some(<<"ex.test">>), port |-> Some(8443)],
      [scheme |-> "http", host |-> Nothing, port |-> Nothing] }

\* the `version` of a body: absent, not a semver string, or a version
BodyVersions ==
    { [kind |-> "absent", v |-> <<0, 0, 0>>],
      [kind |-> "invalid", v |-> <<0, 0, 0>>],
      [kind |-> "semver", v |-> <<0, 4, 9>>],
      [kind |-> "semver", v |-> <<0, 5, 0>>],
      [kind |-> "semver", v |-> <<1, 0, 0>>] }

BodyIdents == {Nothing, Some("POCKET_RELAY_SERVER"), Some("OTHER")}

NoBody ==
    [json |-> FALSE, version |-> [kind |-> "absent", v |-> <<0, 0, 0>>],
     ident |-> Nothing]

Bodies ==
    { NoBody }
    \cup { [json |-> TRUE, version |-> v, ident |-> i] :
             v \in BodyVersions, i \in BodyIdents }

NoResponse ==
    [connected |-> FALSE, status |-> 0,
     url |-> [scheme |-> "http", host |-> Nothing, port |-> Nothing],
     body |-> NoBody]

Responses ==
    { NoResponse }
    \cup { [connected |-> TRUE, status |-> st, url |-> u, body |-> b] :
             st \in Statuses, u \in ResponseUrls, b \in Bodies }

\* the responses of a server that runs Pocket Relay or fails
PlainResponses ==
    { r \in Responses :
        \/ ~r.connected
        \/ /\ r.status \in {200, 404}
           /\ r.url = [scheme |-> "http", host |-> Some(<<"ex.test">>),
                       port |-> Nothing]
           /\ r.body = [json |-> TRUE,
                        version |-> [kind |-> "semver", v |-> <<0, 5, 0>>],
                        ident |-> Some("POCKET_RELAY_SERVER")] }

LookupInit ==
    /\ TARGET = Nothing
    /\ twriter = 0
    /\ config = Nothing
    /\ upc = [c \in Updaters |-> "idle"]
    /\ uarg = [c \in Updaters |-> Nothing]
    /\ uresp = [c \in Updaters |-> Nothing]
    /\ ures = [c \in Updaters |-> Nothing]

\* try_update_host(target, persist) is called: try_lookup_host sends its
\* GET request
CallUpdateHost(c, urls) ==
    /\ upc[c] \in {"idle", "done"}
    /\ \E t \in urls, p \in BOOLEAN :
        uarg' = [uarg EXCEPT ![c] = Some([target |-> t, persist |-> p])]
    /\ upc' = [upc EXCEPT ![c] = "lookup"]
    /\ uresp' = [uresp EXCEPT ![c] = Nothing]
    /\ ures' = [ures EXCEPT ![c] = Nothing]
    /\ UNCHANGED <<TARGET, twriter, config, notLookup>>

\* try_lookup_host(&target).await? completes: an error is returned to the
\* caller, a LookupData is kept for publication
LookupDone(c, responses) ==
    /\ upc[c] = "lookup"
    /\ \E resp \in responses :
        LET result == try_lookup_host(uarg[c][1].target, resp) IN
        /\ uresp' = [uresp EXCEPT ![c] = Some(resp)]
        /\ ures' = [ures EXCEPT ![c] = Some(result)]
        /\ upc' = [upc EXCEPT ![c] =
                     IF "ok" \in DOMAIN result THEN "publish" ELSE "done"]
    /\ UNCHANGED <<TARGET, twriter, config, uarg, notLookup>>

\* the mutant of set_target: the fields of a value that is there are
\* replaced one statement at a time, the version last
set_target_fields(current, result) ==
    IF current = Nothing THEN Some(result)
    ELSE Some([result EXCEPT !.version = current[1].version])

\* *write = Some(result.clone()): the whole value is replaced
set_target(current, result) == Some(result)

\* the mutant of WriteTarget: the guard is dropped right after the
\* assignment, before the config file is written
WriteTarget_release(c) ==
    /\ upc[c] = "publish"
    /\ twriter = 0
    /\ TARGET' = set_target(TARGET, ures[c][1].ok)
    /\ twriter' = 0
    /\ upc' = [upc EXCEPT ![c] = IF uarg[c][1].persist THEN "persist"
                                 ELSE "done"]
    /\ UNCHANGED <<config, uarg, uresp, ures>>

\* TARGET.write().await; *write = Some(result.clone()); without persist the
\* function returns here and drops the guard
WriteTarget(c) ==
    /\ upc[c] = "publish"
    /\ twriter = 0
    /\ TARGET' = set_target(TARGET, ures[c][1].ok)
    /\ IF uarg[c][1].persist
         THEN twriter' = c /\ upc' = [upc EXCEPT ![c] = "persist"]
         ELSE twriter' = 0 /\ upc' = [upc EXCEPT ![c] = "done"]
    /\ UNCHANGED <<config, uarg, uresp, ures>>

Publish(c) == WriteTarget(c) /\ UNCHANGED notLookup

\* write_config_file(..).await, still holding the write guard: the file is
\* written, or the write fails and the error is shown; then the function
\* returns and drops the guard
SaveConfig(c) ==
    /\ upc[c] = "persist"
    /\ \E written \in BOOLEAN :
        config' = IF written THEN Some(uarg[c][1].target) ELSE config
    /\ twriter' = 0
    /\ upc' = [upc EXCEPT ![c] = "done"]
    /\ UNCHANGED <<TARGET, uarg, uresp, ures>>

Persist(c) == SaveConfig(c) /\ UNCHANGED notLookup

\* --- the target under concurrent calls and reads ---

MaxWrites == 2

MaxReads == 2

\* two servers, which differ in every field of their LookupData, and no
\* answer
TargetResponses ==
    { NoResponse,
      [connected |-> TRUE, status |-> 200,
       url |-> [scheme |-> "http", host |-> Some(<<"a.test">>),
                port |-> Nothing],
       body |-> [json |-> TRUE,
                 version |-> [kind |-> "semver", v |-> <<0, 5, 0>>],
                 ident |-> Some("POCKET_RELAY_SERVER")]],
      [connected |-> TRUE, status |-> 200,
       url |-> [scheme |-> "https", host |-> Some(<<"b.test">>),
                port |-> Some(8443)],
       body |-> [json |-> TRUE,
                 version |-> [kind |-> "semver", v |-> <<1, 0, 0>>],
                 ident |-> Some("POCKET_RELAY_SERVER")]] }

\* the connection URL each caller gives
TargetUrl(c) == IF c = 1 THEN <<"a.test">> ELSE <<"b.test">>

WatchInit ==
    /\ twrites = << >>
    /\ tobs = << >>
    /\ tlast = Nothing
    /\ tplain = FALSE
    /\ tfailed = FALSE

\* Publish, with the stored result written down
PublishLogged(c) ==
    /\ Len(twrites) < MaxWrites
    /\ WriteTarget(c)
    /\ twrites' = Append(twrites, ures[c][1].ok)
    /\ tlast' = Some([target |-> uarg[c][1].target, data |-> ures[c][1].ok])
    /\ tplain' = (tplain \/ ~uarg[c][1].persist)
    /\ UNCHANGED <<tobs, tfailed, notLookupWatch>>

\* Persist, with a failed write written down
PersistLogged(c) ==
    /\ SaveConfig(c)
    /\ tfailed' = (tfailed \/ config' # Some(uarg[c][1].target))
    /\ UNCHANGED <<twrites, tobs, tlast, tplain, notLookupWatch>>

\* a listener's TARGET.read().await and clone of the value
TargetRead ==
    /\ Len(tobs) < MaxReads
    /\ twriter = 0
    /\ tobs' = Append(tobs, [value |-> TARGET, at |-> Len(twrites)])
    /\ UNCHANGED <<twrites, tlast, tplain, tfailed, notWatch>>

----------------------------------------------------------------------------
(* servers/main.rs                                                         *)

HTTP_PORT == 42131

UPGRADE_ENDPOINT == <<"api/server/upgrade">>

\* the headers of the upgrade request
UpgradeHeaders ==
    << <<"connection", "Upgrade">>,
       <<"upgrade", "blaze">>,
       <<"x-pocket-relay-scheme", "http">>,
       <<"x-pocket-relay-host", "127.0.0.1">>,
       <<"x-pocket-relay-port", HTTP_PORT>>,
       <<"x-pocket-relay-local-http", "true">> >>

\* the mutant of UpgradeUrl: without a target a local URL is used
UpgradeUrl_or_local(target) ==
    IF target = Nothing
      THEN Some([scheme |-> "http", host |-> <<"127.0.0.1">>, port |-> 80,
                 path |-> UPGRADE_ENDPOINT])
      ELSE Some([scheme |-> target[1].scheme, host |-> target[1].host,
                 port |-> target[1].port, path |-> UPGRADE_ENDPOINT])

\* match &*TARGET.read().await: the upgrade URL of the target, if any
UpgradeUrl(target) ==
    IF target = Nothing
      THEN Nothing
      ELSE Some([scheme |-> target[1].scheme, host |-> target[1].host,
                 port |-> target[1].port, path |-> UPGRADE_ENDPOINT])

\* the mutant of upgrade: every response that is no error is upgraded
upgrade_any(status) == {"ok", "err"}

\* Response::upgrade: only the connection of a 101 Switching Protocols
\* response can be taken over, and taking it over can fail
upgrade(status) == IF status = 101 THEN {"ok", "err"} ELSE {"err"}

Dirs == {"c2s", "s2c"}

UpgradeStatuses == {101, 102, 200, 204, 304, 404, 500}

MainInit ==
    /\ mpc = "listening"
    /\ mwhy = "-"
    /\ mreqs = << >>
    /\ mstatus = Nothing
    /\ wrote = [d \in Dirs |-> << >>]
    /\ pending = [d \in Dirs |-> << >>]
    /\ buf = [d \in Dirs |-> << >>]
    /\ dst = [d \in Dirs |-> << >>]
    /\ peof = [d \in Dirs |-> FALSE]
    /\ ddone = [d \in Dirs |-> FALSE]

\* the bytes of direction d in the order they pass through the tunnel: those
\* delivered, those buffered and those not yet read
Written(d) == dst[d] \o buf[d] \o pending[d]

\* listener.accept() returns a connection and handle_blaze is spawned
Accept ==
    /\ mpc = "listening"
    /\ mpc' = "accepted"
    /\ UNCHANGED <<mwhy, mreqs, mstatus, pending, buf, dst, peof, ddone,
                   wrote, notMain>>

\* the game writes a byte to the connection
ClientWrite ==
    /\ mpc \notin {"listening", "closed"}
    /\ ~peof["c2s"]
    /\ Len(wrote["c2s"]) < MaxBytes
    /\ LET byte == Len(wrote["c2s"]) + 1 IN
        /\ wrote' = [wrote EXCEPT !["c2s"] = Append(@, byte)]
        /\ pending' = [pending EXCEPT !["c2s"] = Append(@, byte)]
    /\ UNCHANGED <<mpc, mwhy, mreqs, mstatus, buf, dst, peof, ddone,
                   notMain>>

\* the remote writes a byte to the connection it has switched to blaze
ServerWrite ==
    /\ mpc \in {"upgrade", "splice"}
    /\ mstatus = Some(101)
    /\ ~peof["s2c"]
    /\ Len(wrote["s2c"]) < MaxBytes
    /\ LET byte == Len(wrote["s2c"]) + 101 IN
        /\ wrote' = [wrote EXCEPT !["s2c"] = Append(@, byte)]
        /\ pending' = [pending EXCEPT !["s2c"] = Append(@, byte)]
    /\ UNCHANGED <<mpc, mwhy, mreqs, mstatus, buf, dst, peof, ddone,
                   notMain>>

\* the game (c2s) or the remote (s2c) closes its side of the connection
PeerClose ==
    /\ \E d \in Dirs :
        /\ ~peof[d]
        /\ IF d = "c2s" THEN mpc \notin {"listening", "closed"}
           ELSE mpc \in {"upgrade", "splice"} /\ mstatus = Some(101)
        /\ peof' = [peof EXCEPT ![d] = TRUE]
    /\ UNCHANGED <<mpc, mwhy, mreqs, mstatus, pending, buf, dst, ddone,
                   wrote, notMain>>

\* handle_blaze reads TARGET: without a target it returns, with one it
\* sends the upgrade request
ReadTarget ==
    /\ mpc = "accepted"
    /\ twriter = 0
    /\ LET url == UpgradeUrl(TARGET) IN
        IF url = Nothing
          THEN /\ mpc' = "closed"
               /\ mwhy' = "no_target"
               /\ mreqs' = mreqs
          ELSE /\ mpc' = "request"
               /\ mwhy' = mwhy
               /\ mreqs' = Append(mreqs, [method |-> "GET", url |-> url[1],
                                           headers |-> UpgradeHeaders])
    /\ UNCHANGED <<mstatus, pending, buf, dst, peof, ddone, wrote, notMain>>

\* request.send().await completes: a failed request and an error status
\* (error_for_status) end the handler
HttpResponse ==
    /\ mpc = "request"
    /\ \/ /\ mpc' = "closed"
          /\ mwhy' = "connect"
          /\ mstatus' = mstatus
       \/ \E status \in UpgradeStatuses :
            /\ mstatus' = Some(status)
            /\ IF error_for_status(status)
                 THEN mpc' = "closed" /\ mwhy' = "status"
                 ELSE mpc' = "upgrade" /\ mwhy' = mwhy
    /\ UNCHANGED <<mreqs, pending, buf, dst, peof, ddone, wrote, notMain>>

\* response.upgrade().await completes
UpgradeDone ==
    /\ mpc = "upgrade"
    /\ \E result \in upgrade(mstatus[1]) :
        IF result = "ok"
          THEN mpc' = "splice" /\ mwhy' = mwhy
          ELSE mpc' = "closed" /\ mwhy' = "upgrade"
    /\ UNCHANGED <<mreqs, mstatus, pending, buf, dst, peof, ddone, wrote, notMain>>

\* copy_bidirectional, poll_fill_buf: a read of k bytes moves the first k
\* bytes the source has written behind the bytes the buffer holds
poll_fill_buf(held, source, k) ==
    [buf |-> held \o SubSeq(source, 1, k),
     source |-> SubSeq(source, k + 1, Len(source))]

\* the mutant of poll_write_buf: the written bytes stay in the buffer
poll_write_buf_again(held, dest, k) ==
    [dst |-> dest \o SubSeq(held, 1, k), buf |-> held]

\* copy_bidirectional, poll_write_buf: a write of k bytes moves the first
\* k bytes of the buffer behind the bytes the destination has received
poll_write_buf(held, dest, k) ==
    [dst |-> dest \o SubSeq(held, 1, k),
     buf |-> SubSeq(held, k + 1, Len(held))]

\* copy_bidirectional: direction d reads the next bytes from its source
\* into the room its buffer has
ReadDir(d) ==
    /\ mpc = "splice"
    /\ ~ddone[d]
    /\ \E k \in 1..Len(pending[d]) :
        LET r == poll_fill_buf(buf[d], pending[d], k) IN
        /\ buf' = [buf EXCEPT ![d] = r.buf]
        /\ pending' = [pending EXCEPT ![d] = r.source]
    /\ UNCHANGED <<mpc, mwhy, mreqs, mstatus, dst, peof, ddone, wrote,
                   notMain>>

PumpRead == \E d \in Dirs : ReadDir(d)

\* copy_bidirectional: direction d writes bytes of its buffer to its
\* destination
WriteDir(d) ==
    /\ mpc = "splice"
    /\ ~ddone[d]
    /\ \E k \in 1..Len(buf[d]) :
        LET w == poll_write_buf(buf[d], dst[d], k) IN
        /\ dst' = [dst EXCEPT ![d] = w.dst]
        /\ buf' = [buf EXCEPT ![d] = w.buf]
    /\ UNCHANGED <<mpc, mwhy, mreqs, mstatus, pending, peof, ddone, wrote,
                   notMain>>

PumpWrite == \E d \in Dirs : WriteDir(d)

\* copy_bidirectional: a direction that has read the end of its source and
\* written everything shuts down its destination
PumpShutdown ==
    /\ mpc = "splice"
    /\ \E d \in Dirs :
        /\ ~ddone[d]
        /\ buf[d] = << >>
        /\ pending[d] = << >>
        /\ peof[d]
        /\ ddone' = [ddone EXCEPT ![d] = TRUE]
    /\ UNCHANGED <<mpc, mwhy, mreqs, mstatus, pending, buf, dst, peof,
                   wrote, notMain>>

\* copy_bidirectional returns Ok when both directions have ended, and the
\* handler returns
SpliceDone ==
    /\ mpc = "splice"
    /\ \A d \in Dirs : ddone[d]
    /\ mpc' = "closed"
    /\ mwhy' = "done"
    /\ UNCHANGED <<mreqs, mstatus, pending, buf, dst, peof, ddone, wrote, notMain>>

\* copy_bidirectional returns the error of a read, write or shutdown, and
\* the handler returns
SpliceError ==
    /\ mpc = "splice"
    /\ mpc' = "closed"
    /\ mwhy' = "io"
    /\ UNCHANGED <<mreqs, mstatus, pending, buf, dst, peof, ddone, wrote, notMain>>

----------------------------------------------------------------------------
(* servers/http.rs                                                         *)

\* the least element of a non-empty set of numbers
Min(S) == CHOOSE x \in S : \A y \in S : x <= y

\* the URL of the target, Target.base_url
base_url(target) ==
    [scheme |-> target.scheme, host |-> target.host,
     port |-> Some(target.port), path |-> <<"/">>]

\* Url::join of a reference made of a path and a query, as hyper hands it
\* over (a sequence of characters): the empty reference is the base itself,
\* a reference that starts with two slashes names another authority (which
\* must not be empty), any other replaces the path of the base
Url_join(base, reference) ==
    IF reference = << >> THEN Ok(base)
    ELSE IF Len(reference) >= 2 /\ reference[1] = "/" /\ reference[2] = "/"
      THEN LET rest  == SubSeq(reference, 3, Len(reference))
               stops == {i \in 1..Len(rest) : rest[i] \in {"/", "?"}}
               n     == IF stops = {} THEN Len(rest) ELSE Min(stops) - 1
               host  == SubSeq(rest, 1, n)
               tail  == SubSeq(rest, n + 1, Len(rest))
           IN  IF host = << >> THEN Err(<<"EmptyHost">>)
               ELSE Ok([scheme |-> base.scheme, host |-> host,
                        port |-> Nothing,
                        path |-> IF tail = << >> THEN <<"/">> ELSE tail])
    ELSE Ok([base EXCEPT !.path = reference])

\* Response::default() with the status set
error_response(status) ==
    [status |-> status, headers |-> << >>, body |-> << >>]

SERVICE_UNAVAILABLE == 503

INTERNAL_SERVER_ERROR == 500

\* proxy_http, the block that creates the proxy target URL: the URL, or the
\* response the handler returns instead
target_url(target, path) ==
    IF target = Nothing
      THEN [response |-> error_response(SERVICE_UNAVAILABLE)]
      ELSE LET joined == Url_join(base_url(target[1]), path) IN
           IF "err" \in DOMAIN joined
             THEN [response |-> error_response(SERVICE_UNAVAILABLE)]
             ELSE [url |-> joined.ok]

\* proxy_request: the response created from the proxy response
proxy_response(status, headers, body) ==
    [status |-> status, headers |-> headers, body |-> body]

\* --- the inputs of the proxy ---

\* paths and queries of inbound requests
RequestPaths ==
    { << >>, <<"/">>, <<"/", "a", "?", "b">>, <<"/", "/">>,
      <<"/", "/", "o", "/", "x">> }

UpstreamStatuses == {200, 404, 500, 503}

UpstreamHeaders == { << >>, << <<"content-type", "text/plain">> >> }

UpstreamBodies == { << >>, <<104, 105>> }

HttpInit ==
    /\ hpc = "idle"
    /\ hreqs = << >>
    /\ hresps = << >>
    /\ houts = << >>
    /\ hup = Nothing

\* the outcome of one call of proxy_http: the response returned, whether the
\* handler made it up itself, whether it found a Target, and what the
\* upstream had answered
Outcome(resp, own, up) ==
    [resp |-> resp, own |-> own, target |-> TARGET # Nothing, up |-> up]

\* hyper reads a request from the connection and calls proxy_http
ProxyRequest ==
    /\ hpc = "idle"
    /\ Len(hreqs) < MaxHttpRequests
    /\ \E path \in RequestPaths : hreqs' = Append(hreqs, path)
    /\ hpc' = "target"
    /\ UNCHANGED <<hresps, houts, hup, notHttp>>

\* proxy_http reads TARGET and creates the target URL: it returns 503 or
\* issues the outbound GET request
ProxyTarget ==
    /\ hpc = "target"
    /\ twriter = 0
    /\ LET r == target_url(TARGET, hreqs[Len(hreqs)]) IN
        IF "response" \in DOMAIN r
          THEN /\ hresps' = Append(hresps, Outcome(r.response, TRUE, Nothing))
               /\ hpc' = "idle"
               /\ houts' = houts
          ELSE /\ houts' = Append(houts, [method |-> "GET", url |-> r.url])
               /\ hpc' = "send"
               /\ hresps' = hresps
    /\ UNCHANGED <<hreqs, hup, notHttp>>

\* proxy_request: send().await completes, with an error (answered 500) or
\* with the status and headers of the response
ProxySend ==
    /\ hpc = "send"
    /\ \/ /\ hresps' = Append(hresps,
                 Outcome(error_response(INTERNAL_SERVER_ERROR), TRUE,
                         Nothing))
          /\ hpc' = "idle"
          /\ hup' = hup
       \/ \E status \in UpstreamStatuses, headers \in UpstreamHeaders :
            /\ hup' = Some([status |-> status, headers |-> headers])
            /\ hpc' = "body"
            /\ hresps' = hresps
    /\ UNCHANGED <<hreqs, houts, notHttp>>

\* proxy_request: bytes().await completes, with an error (answered 500) or
\* with the body, and the response is returned
ProxyBody ==
    /\ hpc = "body"
    /\ \/ hresps' = Append(hresps,
               Outcome(error_response(INTERNAL_SERVER_ERROR), TRUE, Nothing))
       \/ \E body \in UpstreamBodies :
            hresps' = Append(hresps,
               Outcome(proxy_response(hup[1].status, hup[1].headers, body),
                       FALSE,
                       Some([status |-> hup[1].status,
                             headers |-> hup[1].headers, body |-> body])))
    /\ hpc' = "idle"
    /\ hup' = Nothing
    /\ UNCHANGED <<hreqs, houts, notHttp>>

----------------------------------------------------------------------------
(* servers/qos.rs                                                          *)

\* Ipv4Addr::is_loopback: 127.0.0.0/8
is_loopback(ip) == ip[1] = 127

\* Ipv4Addr::is_private: 10.0.0.0/8, 172.16.0.0/12, 192.168.0.0/16
is_private(ip) ==
    \/ ip[1] = 10
    \/ ip[1] = 172 /\ ip[2] \in 16..31
    \/ ip[1] = 192 /\ ip[2] = 168

\* u16::to_be_bytes
to_be_bytes(port) == <<port \div 256, port % 256>>

\* the cache time of servers/qos.rs: 30 minutes
QOS_ADDR_CACHE_TIME == 60 * 30

\* the mutant of probe_value: the second lookup is preferred to the first
probe_value_second(probe) ==
    IF probe.second # Nothing THEN probe.second
    ELSE IF probe.first # Nothing THEN probe.first
    ELSE probe.local

\* public_address, the probe sequence: the first address of the two
\* lookups that answers with an IPv4 address, or else the local address
probe_value(probe) ==
    IF probe.first # Nothing THEN probe.first
    ELSE IF probe.second # Nothing THEN probe.second
    ELSE probe.local

\* public_address of servers/qos.rs, called at the time `time` with the
\* cache `cached`; `probe` is what the lookups would answer.  The result,
\* the cache afterwards and whether the lookups were made.
qos_public_address(cached, time, probe) ==
    IF cached # Nothing /\ time < cached[1].expires
      THEN [result |-> Some(cached[1].value), cache |-> cached,
            probed |-> FALSE]
    ELSE IF probe_value(probe) = Nothing
      THEN [result |-> Nothing, cache |-> cached, probed |-> TRUE]
    ELSE [result |-> probe_value(probe),
          cache |-> Some([value |-> probe_value(probe)[1],
                          expires |-> time + QOS_ADDR_CACHE_TIME]),
          probed |-> TRUE]

\* get_address for an IPv4 peer, `public` being what public_address()
\* returns when it is called: the address, and whether it was called
get_address(ip, public) ==
    IF is_loopback(ip) \/ is_private(ip)
      THEN [address |-> IF public # Nothing THEN public ELSE Some(ip),
            called |-> TRUE]
      ELSE [address |-> Some(ip), called |-> FALSE]

\* socket.recv_from(&mut buffer): the datagram is copied to the front of the
\* buffer, as far as it fits; the rest of the buffer keeps what it held
recv_from(buf20, data) ==
    [i \in 1..Len(buf20) |-> IF i <= Len(data) THEN data[i] ELSE buf20[i]]

\* the output message: the buffer, the address, the port and four zeroes
output(buf20, address, port) ==
    buf20 \o address \o to_be_bytes(port) \o <<0, 0, 0, 0>>

\* --- the inputs of the listener ---

DatagramLens == {1, 20, 21, 64}

\* the k-th datagram of n bytes: every byte is 6 + k
Datagram(k, n) == [i \in 1..n |-> 6 + k]

Peers ==
    { [ip |-> <<127, 0, 0, 1>>, port |-> 55555],
      [ip |-> <<192, 168, 1, 5>>, port |-> 3659],
      [ip |-> <<172, 32, 0, 1>>, port |-> 80],
      [ip |-> <<8, 8, 4, 4>>, port |-> 65535] }

\* what the two lookups and local_ip() answer
Probes ==
    { [first |-> Some(<<93, 184, 216, 34>>),
       second |-> Some(<<93, 184, 216, 35>>), local |-> Nothing],
      [first |-> Some(<<93, 184, 216, 34>>), second |-> Nothing,
       local |-> Some(<<192, 168, 1, 9>>)],
      [first |-> Nothing, second |-> Some(<<93, 184, 216, 35>>),
       local |-> Nothing],
      [first |-> Nothing, second |-> Nothing,
       local |-> Some(<<192, 168, 1, 9>>)],
      [first |-> Nothing, second |-> Nothing, local |-> Nothing] }

\* a datagram longer than the buffer is cut to the buffer ("cut"), or
\* recv_from fails with the buffer filled ("error"), as the platform does
RecvOutcomes == {"cut", "error"}

ClockSteps == {900, 1800}

QosInit ==
    /\ buffer = [i \in 1..20 |-> 0]
    /\ qcache = Nothing
    /\ qnow = 0
    /\ qlog = << >>

\* the system time moves on
QosTick ==
    /\ \E d \in ClockSteps :
        /\ qnow + d <= MaxClock
        /\ qnow' = qnow + d
    /\ UNCHANGED <<buffer, qcache, qlog, notQos>>

\* one round of the loop of start_server: a datagram is received, the
\* address to advertise is found (with the lookups of public_address when
\* it makes them) and the output message is sent to the peer
QosDatagram ==
    /\ Len(qlog) < MaxDatagrams
    /\ \E n \in DatagramLens, peer \in Peers, probe \in Probes,
          recv \in RecvOutcomes :
        LET data   == Datagram(Len(qlog) + 1, n)
            public == qos_public_address(qcache, qnow, probe)
            got    == get_address(peer.ip, public.result)
            failed == n > 20 /\ recv = "error"
        IN  /\ buffer' = recv_from(buffer, data)
            /\ qcache' = IF ~failed /\ got.called THEN public.cache
                         ELSE qcache
            /\ qlog' = Append(qlog,
                 [data |-> data, peer |-> peer,
                  received |-> ~failed,
                  called |-> ~failed /\ got.called,
                  probed |-> ~failed /\ got.called /\ public.probed,
                  public |-> IF ~failed /\ got.called THEN public.result
                             ELSE Nothing,
                  reply |-> IF failed \/ got.address = Nothing THEN Nothing
                            ELSE Some(output(buffer', got.address[1],
                                             peer.port))])
    /\ UNCHANGED <<qnow, notQos>>

----------------------------------------------------------------------------
(* net.rs                                                                  *)

\* the cache time: 2 hours
ADDR_CACHE_TIME == 60 * 60 * 2

\* PublicAddrCache::Set whose expiry `time` has not reached
Fresh(cached, time) ==
    cached # Nothing /\ time < cached[1].expires

\* the mutant of can_read: a read guard is given whatever the writer does
can_read_always(writer) == TRUE

\* RwLock::read: a read guard is given while no caller holds the write guard
can_read(writer) == writer = 0

\* RwLock::write: the write guard is given while no caller holds any guard
can_write(readers, writer) == readers = {} /\ writer = 0

\* --- the callers ---

AddrCallers == 1..MaxCallers

AddrClockSteps == {3600, 7200}

AddrInit ==
    /\ cache = Nothing
    /\ creaders = {}
    /\ cwriter = 0
    /\ cqueue = << >>
    /\ apc = [c \in AddrCallers |-> "idle"]
    /\ aobs = [c \in AddrCallers |-> Nothing]
    /\ aseen = [c \in AddrCallers |-> 0]
    /\ ares = [c \in AddrCallers |-> Nothing]
    /\ aprobe = [c \in AddrCallers |-> Nothing]
    /\ awrites = 0
    /\ acalls = 0
    /\ anow = 0

\* the system time moves on
AddrTick ==
    /\ \E d \in AddrClockSteps :
        /\ anow + d <= MaxAddrClock
        /\ anow' = anow + d
    /\ UNCHANGED <<cache, creaders, cwriter, cqueue, apc, aobs, aseen, ares,
                   awrites, acalls, aprobe, notAddr>>

\* a caller calls public_address() and asks for a read guard
AddrCall ==
    /\ acalls < MaxAddrCalls
    /\ \E c \in AddrCallers :
        /\ apc[c] = "idle"
        /\ apc' = [apc EXCEPT ![c] = "rwait"]
        /\ cqueue' = Append(cqueue, <<c, "r">>)
    /\ acalls' = acalls + 1
    /\ UNCHANGED <<cache, creaders, cwriter, aobs, aseen, ares, awrites,
                   anow, aprobe, notAddr>>

\* PUBLIC_ADDR_CACHE.read().await completes for the caller that has waited
\* longest
GrantRead ==
    /\ cqueue # << >>
    /\ cqueue[1][2] = "r"
    /\ can_read(cwriter)
    /\ creaders' = creaders \cup {cqueue[1][1]}
    /\ apc' = [apc EXCEPT ![cqueue[1][1]] = "check"]
    /\ cqueue' = Tail(cqueue)
    /\ UNCHANGED <<cache, cwriter, aobs, aseen, ares, awrites, acalls, anow,
                   aprobe, notAddr>>

\* the block under the read guard: an entry that has not expired is
\* returned; otherwise the guard is dropped and the caller asks for the
\* write guard
CheckCache ==
    /\ \E c \in AddrCallers :
        /\ apc[c] = "check"
        /\ aobs' = [aobs EXCEPT ![c] = cache]
        /\ aseen' = [aseen EXCEPT ![c] = awrites]
        /\ creaders' = creaders \ {c}
        /\ IF Fresh(cache, anow)
             THEN /\ ares' = [ares EXCEPT ![c] =
                        Some([value |-> Some(cache[1].value),
                              cached |-> TRUE, time |-> anow,
                              expires |-> cache[1].expires])]
                  /\ apc' = [apc EXCEPT ![c] = "idle"]
                  /\ cqueue' = cqueue
             ELSE /\ ares' = ares
                  /\ apc' = [apc EXCEPT ![c] = "wwait"]
                  /\ cqueue' = Append(cqueue, <<c, "w">>)
    /\ UNCHANGED <<cache, cwriter, awrites, acalls, anow, aprobe, notAddr>>

\* PUBLIC_ADDR_CACHE.write().await completes for the caller that has waited
\* longest, and its lookups start
GrantWrite ==
    /\ cqueue # << >>
    /\ cqueue[1][2] = "w"
    /\ can_write(creaders, cwriter)
    /\ cwriter' = cqueue[1][1]
    /\ apc' = [apc EXCEPT ![cqueue[1][1]] = "probe"]
    /\ cqueue' = Tail(cqueue)
    /\ UNCHANGED <<cache, creaders, aobs, aseen, ares, awrites, acalls, anow,
                   aprobe, notAddr>>

\* the lookups and local_ip() have answered: without an address the call
\* returns None and leaves the cache as it is; with one the assignment of
\* the cache begins with the value
ProbeDone ==
    /\ \E c \in AddrCallers, probe \in Probes :
        /\ apc[c] = "probe"
        /\ aprobe' = [aprobe EXCEPT ![c] = Some(probe)]
        /\ IF probe_value(probe) = Nothing
             THEN /\ ares' = [ares EXCEPT ![c] =
                        Some([value |-> Nothing, cached |-> FALSE,
                              time |-> anow, expires |-> 0])]
                  /\ apc' = [apc EXCEPT ![c] = "idle"]
                  /\ cwriter' = 0
                  /\ cache' = cache
             ELSE /\ cache' = Some([value |-> probe_value(probe)[1],
                                    expires |-> IF cache = Nothing THEN 0
                                                ELSE cache[1].expires,
                                    whole |-> FALSE])
                  /\ apc' = [apc EXCEPT ![c] = "store"]
                  /\ cwriter' = cwriter
                  /\ ares' = ares
    /\ UNCHANGED <<creaders, cqueue, aobs, aseen, awrites, acalls, anow,
                   notAddr>>

\* the assignment of the cache ends with the expiry, the write guard is
\* dropped and the value is returned
StoreDone ==
    /\ \E c \in AddrCallers :
        /\ apc[c] = "store"
        /\ cache' = Some([value |-> cache[1].value,
                          expires |-> anow + ADDR_CACHE_TIME,
                          whole |-> TRUE])
        /\ ares' = [ares EXCEPT ![c] =
               Some([value |-> Some(cache[1].value), cached |-> FALSE,
                     time |-> anow, expires |-> anow + ADDR_CACHE_TIME])]
        /\ apc' = [apc EXCEPT ![c] = "idle"]
    /\ cwriter' = 0
    /\ awrites' = awrites + 1
    /\ UNCHANGED <<creaders, cqueue, aobs, aseen, acalls, anow, aprobe, notAddr>>

----------------------------------------------------------------------------
(* servers/telemetry.rs: the TLM3 cipher                                   *)

\* a ^ b on bytes
RECURSIVE xor(_, _)
xor(a, b) ==
    IF a = 0 /\ b = 0 THEN 0
    ELSE (((a % 2) + (b % 2)) % 2) + 2 * xor(a \div 2, b \div 2)

TLM3_KEY ==
    <<84, 104, 101, 32, 116, 114, 117, 116, 104, 32, 105, 115, 32, 98, 97,
      99, 107, 32, 105, 110, 32, 115, 116, 121, 108, 101, 46>>

\* the mutant of xor_cipher: the key is not repeated, the bytes behind its
\* end are lost
xor_cipher_no_cycle(input, key) ==
    [i \in 1..(IF Len(input) < Len(key) THEN Len(input) ELSE Len(key)) |->
        xor(input[i], key[i]) % 128]

\* the mutant of xor_cipher for the range: the outcome of the exclusive or
\* is kept as it is
xor_cipher_no_mod(input, key) ==
    IF key = << >> THEN << >>
    ELSE [i \in 1..Len(input) |->
            xor(input[i], key[((i - 1) % Len(key)) + 1])]

\* xor_cipher: every byte of the input is paired with the next byte of the
\* endlessly repeated key (no byte at all when the key is empty)
xor_cipher(input, key) ==
    IF key = << >> THEN << >>
    ELSE [i \in 1..Len(input) |->
            xor(input[i], key[((i - 1) % Len(key)) + 1]) % 128]

\* --- the inputs of the cipher ---

\* every message of one byte, and some longer ones
CipherMessages ==
    { <<b>> : b \in 0..255 }
    \cup { << >>, <<0, 127, 64>>, <<49, 50, 51, 52, 53>>,
           <<200, 255, 128, 45>>,
           <<126, 125, 1, 2, 3, 4, 5, 6, 7, 8, 9, 10, 11, 12, 13, 14, 15, 16,
             17, 18, 19, 20, 21, 22, 23, 24, 25, 26, 27, 28, 29>> }

\* every key of one byte, and some longer ones
CipherKeys ==
    { <<b>> : b \in 0..255 }
    \cup { <<255, 0>>, <<128, 127, 1>>, <<84, 104, 101, 32>>, TLM3_KEY }

CipherInit ==
    /\ xmsg \in CipherMessages
    /\ xkey \in CipherKeys
    /\ xtext = xmsg
    /\ xcount = 0

\* xor_cipher is applied to the outcome of the application before
Cipher ==
    /\ xcount < 2
    /\ xtext' = xor_cipher(xtext, xkey)
    /\ xcount' = xcount + 1
    /\ UNCHANGED <<xmsg, xkey, notCipher>>

----------------------------------------------------------------------------
(* servers/telemetry.rs: one connection                                    *)
(*                                                                         *)
(* The stream and the payloads are plain sequences of bytes; a String is   *)
(* the sequence of its characters' code points.                            *)

\* the decimal digits of a number, as characters
RECURSIVE digits(_)
digits(n) ==
    IF n < 10 THEN <<48 + n>> ELSE digits(n \div 10) \o <<48 + (n % 10)>>

RECURSIVE debug_items(_)
debug_items(items) ==
    IF items = << >> THEN << >>
    ELSE IF Len(items) = 1 THEN digits(items[1])
    ELSE digits(items[1]) \o <<44, 32>> \o debug_items(Tail(items))

\* format!("{:?}", value) of a slice of bytes: "[1, 2, 3]"
fmt_debug(value) == <<91>> \o debug_items(value) \o <<93>>

\* String::from_utf8_lossy on bytes of which those above 0x7F are 0xFF, a
\* byte no UTF-8 sequence holds: each becomes U+FFFD
from_utf8_lossy(slice) ==
    [i \in 1..Len(slice) |-> IF slice[i] < 128 THEN slice[i] ELSE 65533]

\* slice.splitn(n, |value| sep.eq(value)), n >= 1: at most n pieces, the
\* last one holds the rest of the slice
RECURSIVE splitn(_, _, _)
splitn(n, slice, sep) ==
    LET hits == {i \in 1..Len(slice) : slice[i] = sep} IN
    IF n = 1 \/ hits = {} THEN <<slice>>
    ELSE LET i == Min(hits) IN
         <<SubSeq(slice, 1, i - 1)>>
            \o splitn(n - 1, SubSeq(slice, i + 1, Len(slice)), sep)

\* slice.split(|value| sep.eq(value))
split(slice, sep) == splitn(Len(slice) + 1, slice, sep)

\* the mutant of tlm3: the line is split at its last dash
tlm3_last_dash(input) ==
    LET hits == {i \in 1..Len(input) : input[i] = 45} IN
    IF hits = {} THEN fmt_debug(input)
    ELSE LET i == CHOOSE x \in hits : \A y \in hits : y <= x IN
         xor_cipher(SubSeq(input, i + 1, Len(input)), TLM3_KEY)

\* tlm3: what follows the first '-' goes through the cipher
tlm3(input) ==
    LET parts == splitn(2, input, 45) IN
    IF Len(parts) >= 2 THEN xor_cipher(parts[2], TLM3_KEY)
    ELSE fmt_debug(input)

\* "TLM3"
TLM3 == <<84, 76, 77, 51>>

\* decode_message, the closure of map: the pair of a key and a value
decode_pair(key, value) ==
    LET name == from_utf8_lossy(key) IN
    <<name, IF name = TLM3 THEN tlm3(value) ELSE fmt_debug(value)>>

\* decode_message, filter_map and map over the lines
RECURSIVE decode_lines(_)
decode_lines(lines) ==
    IF lines = << >> THEN << >>
    ELSE LET parts == splitn(2, Head(lines), 61) IN
         (IF Len(parts) < 2 THEN << >>
          ELSE <<decode_pair(parts[1], parts[2])>>)
            \o decode_lines(Tail(lines))

\* decode_message: the values of a TelemetryMessage
decode_message(message) == decode_lines(split(message, 10))

\* u16::from_be_bytes
from_be_bytes(pair) == (pair[1] * 256) + pair[2]

\* the mutant of payload_len: a wrapping subtraction of the header's size
payload_len_wrapping(length) == (length - 12) % 65536

\* read_message: (length - 12.min(length)) as usize, on u16
payload_len(length) == (length - Min({12, length})) % 65536

\* the mutant of after_post: a POST that failed ends the loop
after_post_strict(outcome) == IF outcome = "ok" THEN "header" ELSE "closed"

\* the body of the while let: the outcome of send() is dropped (let _ =),
\* the loop goes back to read_message
after_post(outcome) == "header"

TELEMETRY_ENDPOINT == <<"api/server/telemetry">>

\* --- the inputs of decode_message ---

\* values of up to three bytes out of 'a', '-', '=' and 0x90
DecodeValues ==
    LET Alphabet == {97, 45, 61, 144} IN
    {<< >>} \cup { <<a>> : a \in Alphabet }
      \cup { <<a, b>> : a, b \in Alphabet }
      \cup { <<a, b, c>> : a, b, c \in Alphabet }

\* the keys "TLM3", "tlm3", "K", "TLM" and one that is not UTF-8
DecodeKeys ==
    {TLM3, <<116, 108, 109, 51>>, <<75>>, <<84, 76, 77>>, <<255>>}

\* buffers: one line of a key and a value, lines without '=', several
\* lines, the TLM3 line of test_tlm3_line cut short, no byte at all
DecodeMessages ==
    { k \o <<61>> \o v : k \in DecodeKeys, v \in DecodeValues }
    \cup { << >>, <<120, 121>>, <<45, 97>>,
           <<65, 61, 49, 10, 84, 76, 77, 51, 61, 45, 10, 122, 122, 10, 66,
             61>>,
           <<84, 76, 77, 51, 61, 64, 56, 97, 45, 100, 88, 85, 144>> }

DecodeInit ==
    /\ dmessage \in DecodeMessages
    /\ dvalues = << >>
    /\ ddecoded = FALSE

\* decode_message(buffer)
DecodeMessage ==
    /\ ~ddecoded
    /\ dvalues' = decode_message(dmessage)
    /\ ddecoded' = TRUE
    /\ UNCHANGED <<dmessage, notDecode>>

\* --- what the game and the remote server do ---

MaxFrames == 2

\* a message on the wire: ten bytes of header, the length, the payload
frame(length, payload) ==
    <<1, 2, 3, 4, 5, 6, 7, 8, 9, 10>> \o to_be_bytes(length) \o payload

\* what the game writes at once: a message whose length field counts the
\* header and the payload, a message whose length field is another number,
\* or the start of a header
TelemetryWrites ==
    { frame(12 + Len(p), p) :
        p \in { <<84, 76, 77, 51, 61, 97, 45, 98, 45, 99>>,
                <<75, 61, 49, 10, 120>> } }
    \cup { frame(0, << >>), frame(11, << >>), frame(12, << >>),
           frame(13, <<120>>), frame(65535, <<120, 121>>), <<1, 2, 3>> }

\* how a POST ends: a response of status 2xx, a response of an error
\* status, an error of the connection
PostOutcomes == {"ok", "status", "error"}

TelemetryInit ==
    /\ tpc = "listening"
    /\ twhy = "-"
    /\ turl = Nothing
    /\ tstream = << >>
    /\ teof = FALSE
    /\ tlen = 0
    /\ tneed = 0
    /\ tsent = << >>
    /\ ttaken = 0
    /\ tmsgs = << >>
    /\ tposts = << >>

\* listener.accept() returns a stream, the task is spawned
TelemetryAccept ==
    /\ tpc = "listening"
    /\ tpc' = "accepted"
    /\ UNCHANGED <<twhy, turl, tstream, teof, tlen, tneed, tsent, ttaken,
                   tmsgs, tposts, notTelemetry>>

\* the game writes to the stream
GameSend ==
    /\ tpc \in {"accepted", "header", "payload", "post"}
    /\ ~teof
    /\ Len(tsent) < MaxFrames
    /\ \E w \in TelemetryWrites :
        /\ tstream' = tstream \o w
        /\ tsent' = Append(tsent, w)
    /\ UNCHANGED <<tpc, twhy, turl, teof, tlen, tneed, ttaken, tmsgs,
                   tposts, notTelemetry>>

\* the game closes the stream
GameClose ==
    /\ tpc \in {"accepted", "header", "payload", "post"}
    /\ ~teof
    /\ teof' = TRUE
    /\ UNCHANGED <<tpc, twhy, turl, tstream, tlen, tneed, tsent, ttaken,
                   tmsgs, tposts, notTelemetry>>

\* TARGET.read().await: without a target the task returns, with one it
\* creates the URL of the endpoint
TelemetryTarget ==
    /\ tpc = "accepted"
    /\ twriter = 0
    /\ IF TARGET = Nothing
         THEN tpc' = "closed" /\ twhy' = "no_target" /\ turl' = turl
         ELSE /\ tpc' = "header"
              /\ twhy' = twhy
              /\ turl' = Some(Url_join(base_url(TARGET[1]),
                                       TELEMETRY_ENDPOINT).ok)
    /\ UNCHANGED <<tstream, teof, tlen, tneed, tsent, ttaken, tmsgs,
                   tposts, notTelemetry>>

\* read_message, stream.read_exact(&mut header).await?: twelve bytes are
\* taken, or the stream ends before them and the loop ends
TelemetryHeader ==
    /\ tpc = "header"
    /\ IF Len(tstream) >= 12
         THEN /\ tlen' = from_be_bytes(SubSeq(tstream, 11, 12))
              /\ tneed' = payload_len(from_be_bytes(SubSeq(tstream, 11, 12)))
              /\ tstream' = SubSeq(tstream, 13, Len(tstream))
              /\ ttaken' = ttaken + 12
              /\ tpc' = "payload"
              /\ twhy' = twhy
         ELSE /\ teof
              /\ tpc' = "closed"
              /\ twhy' = "read"
              /\ UNCHANGED <<tlen, tneed, tstream, ttaken>>
    /\ UNCHANGED <<turl, teof, tsent, tmsgs, tposts, notTelemetry>>

\* read_message, stream.read_exact(&mut buffer).await? and decode_message:
\* a buffer of no byte is full at once; the message is written down with
\* the target that is published when it is handed to the POST
TelemetryPayload ==
    /\ tpc = "payload"
    /\ IF Len(tstream) >= tneed
         THEN /\ tmsgs' = Append(tmsgs,
                    [length |-> tlen,
                     avail |-> Len(tstream),
                     target |-> TARGET,
                     payload |-> SubSeq(tstream, 1, tneed),
                     values |-> decode_message(SubSeq(tstream, 1, tneed))])
              /\ tstream' = SubSeq(tstream, tneed + 1, Len(tstream))
              /\ ttaken' = ttaken + tneed
              /\ tpc' = "post"
              /\ twhy' = twhy
         ELSE /\ teof
              /\ tpc' = "closed"
              /\ twhy' = "read"
              /\ UNCHANGED <<tmsgs, tstream, ttaken>>
    /\ UNCHANGED <<turl, teof, tlen, tneed, tsent, tposts, notTelemetry>>

\* a read of the socket fails (the connection is reset): read_message
\* returns the error and the loop ends
TelemetryReadError ==
    /\ tpc \in {"header", "payload"}
    /\ tpc' = "closed"
    /\ twhy' = "read"
    /\ UNCHANGED <<turl, tstream, teof, tlen, tneed, tsent, ttaken, tmsgs,
                   tposts, notTelemetry>>

\* http_client.post(url.clone()).json(&message).send().await completes
PostDone ==
    /\ tpc = "post"
    /\ \E outcome \in PostOutcomes :
        /\ tposts' = Append(tposts,
               [url |-> turl[1], json |-> tmsgs[Len(tmsgs)].values,
                outcome |-> outcome])
        /\ tpc' = after_post(outcome)
    /\ twhy' = IF tpc' = "closed" THEN "post" ELSE twhy
    /\ UNCHANGED <<turl, tstream, teof, tlen, tneed, tsent, ttaken, tmsgs,
                   notTelemetry>>

----------------------------------------------------------------------------
(* servers.rs: the group of listener tasks                                 *)
(*                                                                         *)
(* stop_server_tasks and spawn_server_task are imported from crate::core,  *)
(* which is not among the sources: they are written after the              *)
(* specification (the tasks are cancelled and have released their sockets  *)
(* when stop returns; a spawned task joins the group).                     *)

stop_server_tasks(tasks) == {}

spawn_server_task(tasks, task) == tasks \cup {task}

\* the mutant of start_all_servers: the servers are spawned and nothing is
\* stopped
start_all_servers_no_stop ==
    <<"redirector", "blaze", "http", "tunnel", "qos", "telemetry">>

\* start_all_servers, statement by statement: the running tasks are
\* stopped, then the six servers are spawned
start_all_servers ==
    <<"stop", "redirector", "blaze", "http", "tunnel", "qos", "telemetry">>

MaxStarts == 3

GroupInit ==
    /\ spc = 0
    /\ sgen = 0
    /\ stasks = {}
    /\ sended = {}

\* the user interface calls start_all_servers (a target has been set)
StartAllServers ==
    /\ spc = 0
    /\ sgen < MaxStarts
    /\ spc' = 1
    /\ sgen' = sgen + 1
    /\ sended' = {}
    /\ UNCHANGED <<stasks, notGroup>>

\* the next statement of start_all_servers
StartStep ==
    /\ spc \in 1..Len(start_all_servers)
    /\ stasks' =
         IF start_all_servers[spc] = "stop" THEN stop_server_tasks(stasks)
         ELSE spawn_server_task(stasks,
                  [kind |-> start_all_servers[spc], call |-> sgen])
    /\ spc' = IF spc = Len(start_all_servers) THEN 0 ELSE spc + 1
    /\ UNCHANGED <<sgen, sended, notGroup>>

\* a task returns: its server could not start (shown to the user), or it
\* has failed
TaskReturn ==
    /\ \E task \in stasks :
        /\ stasks' = stasks \ {task}
        /\ sended' = IF task.call = sgen THEN sended \cup {task.kind}
                      ELSE sended
    /\ UNCHANGED <<spc, sgen, notGroup>>

----------------------------------------------------------------------------
(* servers/mod.rs: the listeners started together                          *)

\* join!(main, qos, redirector, telemetry, http)
Listeners == {"main", "qos", "redirector", "telemetry", "http"}

MaxServed == 1

\* greatest number of errors accept returns to one listener
MaxAcceptErrors == 1

ListenersInit ==
    /\ prunning = TRUE
    /\ lstate = [l \in Listeners |-> "starting"]
    /\ lshown = {}
    /\ lserved = [l \in Listeners |-> 0]
    /\ lerrors = [l \in Listeners |-> 0]

\* start_server of a listener, the bind of its port: the listener goes on
\* to its accept loop, or the error is shown and exit(1) is called
ListenerBind ==
    /\ prunning
    /\ \E l \in Listeners, bound \in BOOLEAN :
        /\ lstate[l] = "starting"
        /\ IF bound
             THEN /\ lstate' = [lstate EXCEPT ![l] = "listening"]
                  /\ UNCHANGED <<lshown, prunning>>
             ELSE /\ lstate' = [lstate EXCEPT ![l] = "failed"]
                  /\ lshown' = lshown \cup {l}
                  /\ prunning' = FALSE
    /\ UNCHANGED <<lserved, lerrors, notListeners>>

\* a listener accepts a connection (the QoS listener receives a datagram)
ListenerServe ==
    /\ prunning
    /\ \E l \in Listeners :
        /\ lstate[l] = "listening"
        /\ lserved[l] < MaxServed
        /\ lserved' = [lserved EXCEPT ![l] = @ + 1]
    /\ UNCHANGED <<prunning, lstate, lshown, lerrors, notListeners>>

\* the arm `Err(_) =>` of the match on listener.accept().await (on
\* socket.recv_from of the QoS listener): `continue` in telemetry.rs and
\* qos.rs, `break` in main.rs, redirector.rs and http.rs
on_accept_error(l) ==
    IF l \in {"telemetry", "qos"} THEN "listening" ELSE "returned"

\* accept (recv_from) returns an error to a listener
ListenerAcceptError ==
    /\ prunning
    /\ \E l \in Listeners :
        /\ lstate[l] = "listening"
        /\ lerrors[l] < MaxAcceptErrors
        /\ lerrors' = [lerrors EXCEPT ![l] = @ + 1]
        /\ lstate' = [lstate EXCEPT ![l] = on_accept_error(l)]
    /\ UNCHANGED <<prunning, lshown, lserved, notListeners>>

----------------------------------------------------------------------------
(* hosts.rs                                                                *)
(*                                                                         *)
(* A text is a sequence of pieces: a space, "#", "\r", "\n", and words     *)
(* that hold none of these ("127.0.0.1", "gosredirector.ea.com", "x").     *)
(* Pieces that follow each other without whitespace make one longer word.  *)

HOST_KEY == "gosredirector.ea.com"

HOST_VALUE == "127.0.0.1"

\* format!("{} {}", HOST_VALUE, HOST_KEY)
host_line == <<HOST_VALUE, " ", HOST_KEY>>

\* char::is_whitespace
is_whitespace(piece) == piece \in {" ", "\r", "\n"}

\* str::lines: the text is split behind every "\n"; the "\n" of a line and
\* one "\r" before it are not part of the line; what follows the last "\n"
\* is a line if it is not empty
lines(text) ==
    LET parts == split(text, "\n")
        n     == Len(parts)
        kept  == IF parts[n] = << >> THEN n - 1 ELSE n
    IN  [i \in 1..kept |->
            IF i < n /\ ends_with(parts[i], "\r")
              THEN SubSeq(parts[i], 1, Len(parts[i]) - 1)
              ELSE parts[i]]

\* the fold of apply_entry and remove_entry: every line with "\n" appended
RECURSIVE fold_lines(_)
fold_lines(ls) ==
    IF ls = << >> THEN << >>
    ELSE Head(ls) \o <<"\n">> \o fold_lines(Tail(ls))

\* str::trim
trim(value) ==
    LET solid == {i \in 1..Len(value) : ~is_whitespace(value[i])} IN
    IF solid = {} THEN << >>
    ELSE SubSeq(value, Min(solid), CHOOSE x \in solid : \A y \in solid : y <= x)

\* str::contains(HOST_KEY)
contains(value, piece) == \E i \in 1..Len(value) : value[i] = piece

\* str::split_whitespace: the words of the value
RECURSIVE split_whitespace(_)
split_whitespace(value) ==
    LET solid == {i \in 1..Len(value) : ~is_whitespace(value[i])} IN
    IF solid = {} THEN << >>
    ELSE LET from   == Min(solid)
             blanks == {i \in from..Len(value) : is_whitespace(value[i])}
             to     == IF blanks = {} THEN Len(value) ELSE Min(blanks) - 1
         IN  <<SubSeq(value, from, to)>>
                \o split_whitespace(SubSeq(value, to + 1, Len(value)))

\* HostEntryGuard::is_host_line
is_host_line(line) ==
    LET value == trim(line) IN
    IF value = << >> \/ starts_with(value, "#") \/ ~contains(value, HOST_KEY)
      THEN FALSE
    ELSE
      LET parts  == splitn(2, value, "#")
          before == IF Len(parts) >= 2 THEN trim(parts[1]) ELSE value
          words  == split_whitespace(before)
      IN  IF before = << >> \/ ~contains(before, HOST_KEY) THEN FALSE
          ELSE Len(words) >= 2 /\ words[2] = <<HOST_KEY>>

\* HostEntryGuard::apply_entry on a hosts file that can or cannot be read
\* and written: what it returns and the file it leaves
apply_entry(file, readable, writable) ==
    IF ~readable THEN [result |-> Err(<<"FileMissing">>), file |-> file]
    ELSE
      LET existing == \E i \in DOMAIN lines(file) : is_host_line(lines(file)[i])
          written  == fold_lines(Append(lines(file), host_line))
      IN  IF existing THEN [result |-> Ok(<<TRUE>>), file |-> file]
          ELSE IF ~writable
            THEN [result |-> Err(<<"PermissionsError">>), file |-> file]
          ELSE [result |-> Ok(<<FALSE>>), file |-> written]

\* HostEntryGuard::remove_entry
remove_entry(file, readable, writable) ==
    IF ~readable THEN [result |-> Err(<<"FileMissing">>), file |-> file]
    ELSE
      LET keep(line) == ~is_host_line(line)
          written    == fold_lines(SelectSeq(lines(file), keep))
      IN  IF ~writable
            THEN [result |-> Err(<<"PermissionsError">>), file |-> file]
          ELSE [result |-> Ok(<< >>), file |-> written]

\* --- the hosts files ---

MaxText == 5

HostsPieces == {" ", "#", "\r", "\n", HOST_VALUE, HOST_KEY, "x"}

\* every text of up to MaxText pieces
HostsFiles == UNION { [1..n -> HostsPieces] : n \in 0..MaxText }

HostsInit ==
    /\ efile \in HostsFiles
    /\ eorig = efile
    /\ epc = "start"
    /\ eguard = Nothing
    /\ edrop = "-"

\* HostEntryGuard::apply(): a guard, or a warning and no guard
HostsApply ==
    /\ epc = "start"
    /\ \E readable, writable \in BOOLEAN :
        LET done == apply_entry(efile, readable, writable) IN
        /\ efile' = done.file
        /\ IF "ok" \in DOMAIN done.result
             THEN /\ eguard' = Some([existing |-> done.result.ok[1]])
                  /\ epc' = "applied"
             ELSE /\ eguard' = Nothing
                  /\ epc' = "failed"
    /\ UNCHANGED <<eorig, edrop, notHosts>>

\* the guard is dropped
HostsDrop ==
    /\ epc = "applied"
    /\ IF eguard[1].existing
         THEN efile' = efile /\ edrop' = "kept"
         ELSE \E readable, writable \in BOOLEAN :
                LET done == remove_entry(efile, readable, writable) IN
                /\ efile' = done.file
                /\ edrop' = IF "ok" \in DOMAIN done.result THEN "removed"
                            ELSE "failed"
    /\ epc' = "dropped"
    /\ UNCHANGED <<eorig, eguard, notHosts>>

----------------------------------------------------------------------------
(* Specifications                                                          *)

\* the state of everything but the cipher's inputs after start
RestInit ==
    /\ CodecInit /\ RedirectorInit /\ LookupInit /\ MainInit /\ HttpInit
    /\ QosInit
    /\ AddrInit
    /\ TelemetryInit
    /\ WatchInit
    /\ GroupInit
    /\ ListenersInit

\* no cipher at work
CipherIdle ==
    /\ xmsg = << >>
    /\ xkey = TLM3_KEY
    /\ xtext = << >>
    /\ xcount = 0

\* the hosts file is left alone
HostsIdle ==
    /\ efile = << >>
    /\ eorig = << >>
    /\ epc = "start"
    /\ eguard = Nothing
    /\ edrop = "-"

\* no buffer to decode
DecodeIdle ==
    /\ dmessage = << >>
    /\ dvalues = << >>
    /\ ddecoded = FALSE

AllInit == RestInit /\ CipherIdle /\ DecodeIdle /\ HostsIdle

NextCodec == EncodeOne \/ DeliverAll \/ DecodeOne

SpecCodec == AllInit /\ [][NextCodec]_vars

NextStream == EncodeNext \/ FeedChunk \/ DecodeNext

SpecStream == AllInit /\ [][NextStream]_vars

NextRedirector ==
    \/ FinishAccept
    \/ ClientSend
    \/ ClientClose
    \/ Tick
    \/ RecvPacket
    \/ SendDone
    \/ RecvEnd
    \/ RecvError
    \/ Timeout

SpecRedirector == AllInit /\ [][NextRedirector]_vars

\* --- lookups from the user interface ---

UpdateHost == \E c \in Callers : CallUpdateHost(c, ConnectionUrls)

LookupResponse == \E c \in Callers : LookupDone(c, Responses)

PublishTarget == \E c \in Callers : Publish(c)

PersistConfig == \E c \in Callers : Persist(c)

NextLookup == UpdateHost \/ LookupResponse \/ PublishTarget \/ PersistConfig

SpecLookup == AllInit /\ [][NextLookup]_vars

\* --- a game connection to the main port, and lookups meanwhile ---

UpdateHostPlain == \E c \in Callers : CallUpdateHost(c, {<<"ex.test">>})

LookupResponsePlain == \E c \in Callers : LookupDone(c, PlainResponses)

NextMain ==
    \/ UpdateHostPlain
    \/ LookupResponsePlain
    \/ PublishTarget
    \/ PersistConfig
    \/ Accept
    \/ ClientWrite
    \/ ServerWrite
    \/ PeerClose
    \/ ReadTarget
    \/ HttpResponse
    \/ UpgradeDone
    \/ PumpRead
    \/ PumpWrite
    \/ PumpShutdown
    \/ SpliceDone
    \/ SpliceError

SpecMain == AllInit /\ [][NextMain]_vars

\* the handler's task is scheduled whenever it can take a step: every step
\* of handle_blaze and of the two directions of copy_bidirectional that
\* stays possible is taken.  What the peers do (writing, closing, failing)
\* is not forced.
MainFairness ==
    /\ WF_vars(ReadTarget)
    /\ WF_vars(HttpResponse)
    /\ WF_vars(UpgradeDone)
    /\ \A d \in Dirs : WF_vars(ReadDir(d))
    /\ \A d \in Dirs : WF_vars(WriteDir(d))
    /\ WF_vars(PumpShutdown)
    /\ WF_vars(SpliceDone)

SpecMainLive == SpecMain /\ MainFairness

\* --- a connection to the HTTP proxy, and lookups meanwhile ---

NextHttp ==
    \/ UpdateHostPlain
    \/ LookupResponsePlain
    \/ PublishTarget
    \/ PersistConfig
    \/ ProxyRequest
    \/ ProxyTarget
    \/ ProxySend
    \/ ProxyBody

SpecHttp == AllInit /\ [][NextHttp]_vars

\* --- the QoS listener ---

NextQos == QosTick \/ QosDatagram

SpecQos == AllInit /\ [][NextQos]_vars

\* --- concurrent callers of public_address ---

NextAddr ==
    \/ AddrTick
    \/ AddrCall
    \/ GrantRead
    \/ CheckCache
    \/ GrantWrite
    \/ ProbeDone
    \/ StoreDone

SpecAddr == AllInit /\ [][NextAddr]_vars

\* --- a connection to the telemetry port, and lookups meanwhile ---

\* the task clones the target once: the lookups that matter to it are those
\* before it has done so
BeforeTarget == tpc \in {"listening", "accepted"}

TelemetryUpdateHost == BeforeTarget /\ UpdateHostPlain

TelemetryLookupResponse == BeforeTarget /\ LookupResponsePlain

TelemetryPublish == BeforeTarget /\ PublishTarget

TelemetryPersist == BeforeTarget /\ PersistConfig

NextTelemetry ==
    \/ TelemetryUpdateHost
    \/ TelemetryLookupResponse
    \/ TelemetryPublish
    \/ TelemetryPersist
    \/ TelemetryAccept
    \/ GameSend
    \/ GameClose
    \/ TelemetryTarget
    \/ TelemetryHeader
    \/ TelemetryPayload
    \/ TelemetryReadError
    \/ PostDone

SpecTelemetry == AllInit /\ [][NextTelemetry]_vars

\* --- concurrent calls of try_update_host and a listener that reads ---

UpdateHostAny == \E c \in Updaters : CallUpdateHost(c, {TargetUrl(c)})

LookupResponseAny == \E c \in Updaters : LookupDone(c, TargetResponses)

PublishAny == \E c \in Updaters : PublishLogged(c)

PersistAny == \E c \in Updaters : PersistLogged(c)

NextTarget ==
    \/ UpdateHostAny
    \/ LookupResponseAny
    \/ PublishAny
    \/ PersistAny
    \/ TargetRead

SpecTarget == AllInit /\ [][NextTarget]_vars

\* --- a connection to the telemetry port while the target is replaced ---

RetargetUpdateHost == \E c \in Callers : CallUpdateHost(c, {<<"ex.test">>})

RetargetLookupResponse == \E c \in Callers : LookupDone(c, TargetResponses)

NextRetarget ==
    \/ RetargetUpdateHost
    \/ RetargetLookupResponse
    \/ PublishTarget
    \/ PersistConfig
    \/ TelemetryAccept
    \/ GameSend
    \/ GameClose
    \/ TelemetryTarget
    \/ TelemetryHeader
    \/ TelemetryPayload
    \/ TelemetryReadError
    \/ PostDone

SpecRetarget == AllInit /\ [][NextRetarget]_vars

\* --- calls of start_all_servers ---

NextGroup == StartAllServers \/ StartStep \/ TaskReturn

SpecGroup == AllInit /\ [][NextGroup]_vars

\* --- the listeners start and serve ---

NextListeners == ListenerBind \/ ListenerServe \/ ListenerAcceptError

SpecListeners == AllInit /\ [][NextListeners]_vars

\* --- the cipher applied twice ---

NextCipher == Cipher

CipherStart == CipherInit /\ DecodeIdle /\ HostsIdle /\ RestInit

SpecCipher == CipherStart /\ [][NextCipher]_vars

\* --- decode_message on one buffer ---

NextDecode == DecodeMessage

DecodeStart == DecodeInit /\ CipherIdle /\ HostsIdle /\ RestInit

\* --- the guard of the hosts file, applied and dropped ---

NextHosts == HostsApply \/ HostsDrop

HostsStart == HostsInit /\ CipherIdle /\ DecodeIdle /\ RestInit

SpecHosts == HostsStart /\ [][NextHosts]_vars

SpecDecode == DecodeStart /\ [][NextDecode]_vars

----------------------------------------------------------------------------
(* Claims about the packet codec                                           *)

\* the size of the frame at the front of a buffer according to the wire
\* layout: 12 header bytes, 2 more when the extended flag is set, and
\* length_low + (length_high << 16) payload bytes; 0 when the buffer is
\* too short to tell
WireFrameSize(b) ==
    IF len(b) < 12 THEN 0
    ELSE IF get_u8(b, 9) # 16 THEN 12 + get_u16(b, 0)
    ELSE IF len(b) < 14 THEN 0
    ELSE 14 + get_u16(b, 0) + get_u16(b, 12) * 65536

\* the packets a consumer takes from a buffer delivered in one piece
RECURSIVE DecodeAll(_, _)
DecodeAll(b, n) ==
    IF n = 0 THEN << >>
    ELSE LET r == PacketCodec_decode(b) IN
         IF r.res = None THEN << >>
         ELSE <<r.res>> \o DecodeAll(r.src, n - 1)

\* C1: a packet written with Packet::write / PacketCodec::encode takes
\* 12 + (2 if L > 0xFFFF) + L bytes, and decoding these bytes gives back
\* the same packet and leaves the buffer empty.
C1_FrameRoundTrip ==
    encoded # << >> =>
        LET L == len(encoded[1].contents) IN
        /\ len(stream) = 12 + (IF L > 65535 THEN 2 ELSE 0) + L
        /\ (Pending = 0 /\ last # "-") => (out = encoded /\ src = << >>)

\* C2: the byte at offset 9 of an encoded frame is 0x10 if and only if the
\* payload is longer than 0xFFFF bytes and 0x00 otherwise; the header takes
\* 14 bytes when the flag is set and 12 bytes when it is not, and the
\* payload follows it.
C2_ExtendedThreshold ==
    encoded # << >> =>
        LET L == len(encoded[1].contents)
            hdr == len(stream) - L
            flag == byte_at(stream, 9)
        IN  /\ flag \in {0, 16}
            /\ (flag = 16) <=> (L > 65535)
            /\ hdr = IF flag = 16 THEN 14 ELSE 12
            /\ advance(stream, hdr) = encoded[1].contents

\* a frame on either side of the threshold has been encoded
C2_Witness ==
    /\ encoded # << >>
    /\ len(encoded[1].contents) = 65536
    /\ byte_at(stream, 9) = 16
    /\ len(stream) = 65550

\* C4: the decoder emits a packet only when its buffer holds a complete
\* frame (12 header bytes, 14 with the extended flag, and the whole payload
\* of length_low + (length_high << 16) bytes); otherwise it reports
\* need-more and leaves the buffer as it was; so the packets taken from a
\* stream do not depend on how the stream was cut into chunks.
C4_DecoderStateMachine ==
    /\ [][ out' # out =>
              /\ WireFrameSize(src) > 0
              /\ len(src) >= WireFrameSize(src)
              /\ len(src') = len(src) - WireFrameSize(src) ]_vars
    /\ [][ (last' = "none" /\ delivered' = delivered /\ stream' = stream)
              => src' = src ]_vars
    /\ []( (Pending = 0 /\ last = "none") => out = DecodeAll(stream, MaxOut) )

\* C32 as it was stated: for every payload length L the first two bytes of
\* the header hold min(L, 0xFFFF), and for L > 0xFFFF the two bytes behind
\* the header hold L >> 16.
C32_LengthLowMin ==
    encoded # << >> =>
        LET L == len(encoded[1].contents) IN
        /\ get_u16(stream, 0) = (IF L > 65535 THEN 65535 ELSE L)
        /\ L > 65535 => get_u16(stream, 12) = L \div 65536

\* C32: for every payload length L the first two bytes of the header hold
\* the low 16 bits of L (L mod 0x10000), and for L > 0xFFFF the two bytes
\* behind the header hold L >> 16.
C32_LengthLow ==
    encoded # << >> =>
        LET L == len(encoded[1].contents) IN
        /\ get_u16(stream, 0) = L % 65536
        /\ L > 65535 => get_u16(stream, 12) = L \div 65536

\* a payload of 70000 bytes was encoded: 4464 in the low half, 1 in the
\* high half
C32_Witness ==
    /\ encoded # << >>
    /\ len(encoded[1].contents) = 70000
    /\ get_u16(stream, 0) = 4464
    /\ get_u16(stream, 12) = 1

\* C33: the payload the decoder waits for and splits off has length_low
\* bytes, and length_low + (length_high << 16) bytes when the header has
\* the extended flag 0x10.
C33_DecoderLength ==
    [][ out' # out =>
          /\ len(out'[Len(out')].contents) =
                IF get_u8(src, 9) = 16
                  THEN get_u16(src, 0) + (get_u16(src, 12) * 65536)
                  ELSE get_u16(src, 0)
          /\ len(src) >= WireFrameSize(src) ]_vars

----------------------------------------------------------------------------
(* Claims about the redirector                                             *)

\* the request asks for the server instance
IsGetServerInstance(p) == p.header.component = 5 /\ p.header.command = 1

\* the header of p with the type Response and nothing else changed
AsResponse(p) == [p.header EXCEPT !.ty = "Response"]

\* the address record: 127.0.0.1, the main port, not secure, no DNS
AddressRecord ==
    << <<"ADDR", "union_start", 0>>,
       <<"VALU", "group">>,
       <<"IP", "u32", 2130706433>>,
       <<"PORT", "u16", 42128>>,
       <<"group_end">>,
       <<"SECU", "bool", FALSE>>,
       <<"XDNS", "bool", FALSE>> >>

\* C3: every reply the redirector sends, empty or with the address record,
\* has the type Response and the component, command, error and id of the
\* request it answers.
C3_ResponseHeader ==
    \A i \in 1..Len(sent) :
        /\ sent[i].header.ty = "Response"
        /\ sent[i].header.component = reqs[i].header.component
        /\ sent[i].header.command = reqs[i].header.command
        /\ sent[i].header.error = reqs[i].header.error
        /\ sent[i].header.id = reqs[i].header.id

\* an empty reply and an address reply were sent, to requests that carry an
\* error code and are not of type Request
C3_Witness ==
    /\ Len(sent) = 2
    /\ reqs[1].header.ty = "Notify" /\ reqs[1].header.error = 513
    /\ reqs[2].header.ty = "Error" /\ reqs[2].header.error = 513
    /\ sent[1].contents = << >>
    /\ sent[2].contents = AddressRecord

C6_MismatchingRequest ==
    /\ [] ( Len(sent) = Len(reqs) )
    /\ [] ( \A i \in 1..Len(sent) :
               ~IsGetServerInstance(reqs[i]) =>
                   sent[i] = [header |-> AsResponse(reqs[i]),
                              contents |-> << >>] )
    /\ [][ (rpc = "send" /\ ~IsGetServerInstance(reqs[Len(reqs)])
                /\ rpc' # "send")
             => (rpc' = "await" \/ rres' = "err") ]_vars

\* two different mismatching requests were answered and the handler waits
\* for the next one
C6_Witness ==
    /\ rpc = "await"
    /\ Len(sent) = 2
    /\ ~IsGetServerInstance(reqs[1])
    /\ ~IsGetServerInstance(reqs[2])
    /\ reqs[1] # reqs[2]
    /\ inq # << >>

\* C7: a connection that has not completed the redirect is closed at the
\* latest DEFAULT_TIMEOUT (60) seconds after it was accepted, whatever the
\* client sends.
C7_IdleTimeout == rpc \in {"await", "send"} => now <= 60

----------------------------------------------------------------------------
(* Claims about the server lookup                                          *)

\* the response passes every validation of the lookup
Acceptable(resp) ==
    /\ resp.connected
    /\ resp.status >= 200 /\ resp.status <= 299
    /\ resp.url.host # << >>
    /\ resp.body.json
    /\ resp.body.version.kind = "semver"
    /\ resp.body.ident = <<"POCKET_RELAY_SERVER">>
    /\ LET v == resp.body.version.v IN
         v[1] > 0 \/ (v[1] = 0 /\ v[2] >= 5)

\* C8: try_lookup_host returns a Target if and only if the request
\* completed, the status is 2xx, the effective URL has a host, the body is
\* JSON with a semver version and the ident POCKET_RELAY_SERVER, and the
\* version is at least 0.5.0; a response that fails only by its version
\* 0.4.9 gives ServerOutdated(0.4.9, 0.5.0), one that fails only by its
\* ident OTHER gives NotPocketRelay.
C8_LookupAcceptance ==
    \A c \in Callers :
        ures[c] # << >> =>
            LET resp == uresp[c][1]
                res  == ures[c][1]
            IN  /\ ("ok" \in DOMAIN res) <=> Acceptable(resp)
                /\ ( /\ Acceptable([resp EXCEPT
                            !.body.version.v = <<0, 5, 0>>])
                     /\ resp.body.version.v = <<0, 4, 9>> )
                   => res = [err |-> <<"ServerOutdated", <<0, 4, 9>>,
                                       <<0, 5, 0>> >>]
                /\ ( /\ Acceptable([resp EXCEPT
                            !.body.ident = <<"POCKET_RELAY_SERVER">>])
                     /\ resp.body.ident = <<"OTHER">> )
                   => res = [err |-> <<"NotPocketRelay">>]

\* the call of c has a result, and it is an error
Failed(results, c) == results[c] # << >> /\ "err" \in DOMAIN results[c][1]

\* the call of c has a result, and it is a LookupData
Passed(results, c) == results[c] # << >> /\ "ok" \in DOMAIN results[c][1]

FirstFailure(resp) ==
    IF ~resp.connected THEN "ConnectionFailed"
    ELSE IF resp.status < 200 \/ resp.status > 299 THEN "ErrorResponse"
    ELSE IF resp.url.host = << >> THEN "InvalidHostTarget"
    ELSE IF ~resp.body.json \/ resp.body.version.kind # "semver"
      THEN "InvalidResponse"
    ELSE IF resp.body.ident # <<"POCKET_RELAY_SERVER">> THEN "NotPocketRelay"
    ELSE IF resp.body.version.v[1] = 0 /\ resp.body.version.v[2] < 5
      THEN "ServerOutdated"
    ELSE "none"

\* C35: try_lookup_host reports the first validation the response fails,
\* in the order ConnectionFailed, ErrorResponse (status not 2xx),
\* InvalidHostTarget, InvalidResponse, NotPocketRelay, ServerOutdated: a
\* wrong or missing ident with an outdated version gives NotPocketRelay,
\* and a response whose status is not 2xx is not parsed.
C35_ErrorPrecedence ==
    \A c \in Callers :
        ures[c] # << >> =>
            FirstFailure(uresp[c][1]) =
                IF Passed(ures, c) THEN "none" ELSE ures[c][1].err[1]

----------------------------------------------------------------------------
(* Claims about the main tunnel                                            *)

\* C9: a handler that finds no Target published when it reads the shared
\* target returns at once: the connection is closed, no HTTP request is
\* issued and no byte is forwarded.
C9_NoTarget ==
    /\ [][ (mpc = "accepted" /\ TARGET = << >> /\ mpc' # "accepted")
             => (mpc' = "closed" /\ mwhy' = "no_target"
                 /\ mreqs' = mreqs) ]_vars
    /\ [] ( mwhy = "no_target" =>
               /\ mpc = "closed"
               /\ mreqs = << >>
               /\ \A d \in Dirs : dst[d] = << >> /\ buf[d] = << >> )

\* the connection was closed for want of a Target, with bytes of the game
\* waiting, and a Target was published afterwards
C9_Witness ==
    /\ mwhy = "no_target"
    /\ pending["c2s"] # << >>
    /\ TARGET # << >>

\* C10: bytes are spliced only after the remote answered the upgrade
\* request with 101; after a response with any other status the handler
\* returns, the connection is closed and no byte is forwarded in either
\* direction.
C10_UpgradeStatus ==
    /\ [] ( ( \/ mpc = "splice"
              \/ \E d \in Dirs : dst[d] # << >> \/ buf[d] # << >> )
            => mstatus = <<101>> )
    /\ [][ (mpc = "upgrade" /\ mstatus # <<101>> /\ mpc' # "upgrade")
             => mpc' = "closed" ]_vars
    /\ [] ( (mstatus # << >> /\ mstatus # <<101>>)
             => mpc \in {"upgrade", "closed"} )

\* the remote answered 200, the connection is closed and the bytes the
\* game had written were not forwarded
C10_Witness ==
    /\ mstatus = <<200>>
    /\ mpc = "closed"
    /\ mwhy = "upgrade"
    /\ Len(pending["c2s"]) = 2
    /\ dst["c2s"] = << >>

\* a is a prefix of b
IsPrefix(a, b) == Len(a) <= Len(b) /\ a = SubSeq(b, 1, Len(a))

\* the other direction
Other(d) == IF d = "c2s" THEN "s2c" ELSE "c2s"

\* C11: in each direction the bytes written to the destination are at every
\* moment a prefix of the bytes the source has written, and the bytes
\* delivered, buffered and unread are together exactly the bytes the source
\* has written (none dropped, duplicated, reordered or changed); a
\* direction can read whenever its source has unread bytes and write
\* whenever its buffer holds bytes, whatever the state of the other
\* direction, and a step of one direction leaves the other untouched.
C11_TunnelOrdering ==
    /\ [] ( \A d \in Dirs :
              /\ IsPrefix(dst[d], wrote[d])
              /\ Written(d) = wrote[d] )
    /\ [] ( \A d \in Dirs :
              (mpc = "splice" /\ ~ddone[d]) =>
                 /\ pending[d] # << >> => ENABLED ReadDir(d)
                 /\ buf[d] # << >> => ENABLED WriteDir(d) )
    /\ [][ \A d \in Dirs :
             (dst'[d] # dst[d] \/ buf'[d] # buf[d]) =>
                /\ dst'[Other(d)] = dst[Other(d)]
                /\ buf'[Other(d)] = buf[Other(d)]
                /\ pending'[Other(d)] = pending[Other(d)] ]_vars

\* both bytes of the game have reached the remote, the second after a
\* write of its own, while the remote has never written anything
C11_Witness ==
    /\ dst["c2s"] = <<1, 2>>
    /\ wrote["s2c"] = << >>
    /\ mpc = "splice"

\* C12: when one side of a spliced connection has reached its end, every
\* byte read from it is delivered to the other side before that direction
\* ends, and the whole connection is then closed (the splice returns)
\* whether or not the other side closes as well.
C12_HalfClose ==
    /\ [] ( \A d \in Dirs :
              ddone[d] => (buf[d] = << >> /\ dst[d] = wrote[d]) )
    /\ \A d \in Dirs :
         (mpc = "splice" /\ peof[d]) ~> (mpc = "closed")

----------------------------------------------------------------------------
(* Claims about the HTTP proxy                                             *)

\* C13: a request handled while no Target is published is answered with 503
\* Service Unavailable and no outbound request is issued for it; a request
\* handled while a Target is published is never answered with a 503 the
\* proxy made up itself.
C13_NoTarget ==
    /\ [][ (hpc = "target" /\ hpc' # "target" /\ TARGET = << >>) =>
              /\ Len(hresps') = Len(hresps) + 1
              /\ hresps'[Len(hresps')].resp.status = 503
              /\ houts' = houts ]_vars
    /\ [] ( \A i \in 1..Len(hresps) :
              (hresps[i].target /\ hresps[i].own)
                 => hresps[i].resp.status # 503 )

\* C14: with a Target published every request is answered exactly once,
\* either with the status, headers and body of the upstream response
\* (whatever its status) or, when the outbound call failed, with 500
\* Internal Server Error.
C14_ProxyOutcome ==
    /\ [] ( Len(hresps) = IF hpc = "idle" THEN Len(hreqs)
                          ELSE Len(hreqs) - 1 )
    /\ [] ( \A i \in 1..Len(hresps) :
              hresps[i].target =>
                 \/ /\ ~hresps[i].own
                    /\ hresps[i].up # << >>
                    /\ hresps[i].resp = hresps[i].up[1]
                 \/ /\ hresps[i].own
                    /\ hresps[i].resp.status = 500 )

----------------------------------------------------------------------------
(* Claims about the QoS listener                                           *)

\* C15: the reply to a datagram of N bytes, 1 <= N <= 64, has N + 10 bytes:
\* the N bytes of the datagram, the four bytes of the advertised address,
\* the two bytes of the peer's port, high byte first, and four zero bytes.
C15_ReplyShape ==
    \A i \in 1..Len(qlog) :
      LET e == qlog[i]
          N == Len(e.data)
      IN  (e.reply # << >> /\ N >= 1 /\ N <= 64) =>
            /\ Len(e.reply[1]) = N + 10
            /\ SubSeq(e.reply[1], 1, N) = e.data
            /\ SubSeq(e.reply[1], N + 5, N + 6)
                 = <<e.peer.port \div 256, e.peer.port % 256>>
            /\ SubSeq(e.reply[1], N + 7, N + 10) = <<0, 0, 0, 0>>

\* the address a reply advertises: the four bytes behind the buffer
Advertised(e) == SubSeq(e.reply[1], 21, 24)

\* the peer of a datagram is loopback or private
Internal(e) ==
    \/ e.peer.ip[1] \in {10, 127}
    \/ e.peer.ip[1] = 172 /\ e.peer.ip[2] >= 16 /\ e.peer.ip[2] <= 31
    \/ e.peer.ip[1] = 192 /\ e.peer.ip[2] = 168

\* C16: a reply to a loopback or private peer advertises the address
\* public_address() returned; a reply to any other peer advertises the
\* peer's own address, and public_address() was not called for it.
C16_AddressSelection ==
    \A i \in 1..Len(qlog) :
      LET e == qlog[i] IN
      e.reply # << >> =>
        IF Internal(e)
          THEN e.called /\ e.public # << >> /\ Advertised(e) = e.public[1]
          ELSE ~e.called /\ Advertised(e) = e.peer.ip

\* C17: when the peer of a datagram is loopback or private and
\* public_address() returns none, no reply is sent for the datagram.
C17_SkipUnresolved ==
    \A i \in 1..Len(qlog) :
      LET e == qlog[i] IN
      (Internal(e) /\ e.called /\ e.public = << >>) => e.reply = << >>

\* C36: the reply to a datagram does not depend on the datagrams received
\* before it: the bytes it echoes are those that the same datagram gets
\* when it is the first one the listener receives, also when it is shorter
\* than the receive buffer.
C36_NoLeak ==
    \A i \in 1..Len(qlog) :
        qlog[i].reply # << >> =>
            SubSeq(qlog[i].reply[1], 1, 20)
                = recv_from([k \in 1..20 |-> 0], qlog[i].data)

----------------------------------------------------------------------------
(* Claims about the public address                                         *)

\* C18: no caller starts its lookups while the cache holds a value whose
\* expiry has not passed, whatever the interleaving of the callers; and a
\* value returned from the cache had not expired when it was returned.
C18_CacheHit ==
    /\ [][ \A c \in AddrCallers :
             (apc[c] # "probe" /\ apc'[c] = "probe")
                => ~(cache # << >> /\ anow < cache[1].expires) ]_vars
    /\ [] ( \A c \in AddrCallers :
              (ares[c] # << >> /\ ares[c][1].cached)
                 => ares[c][1].time < ares[c][1].expires )

\* C19: of the callers that found the cache unset or expired, one makes the
\* lookups; a caller that waited for the write guard while another wrote a
\* value does not make lookups of its own.
C19_SingleRefresh ==
    [][ \A c \in AddrCallers :
          (apc[c] = "wwait" /\ apc'[c] = "probe") => awrites = aseen[c] ]_vars

\* C20: at most one caller at a time is between taking the write guard and
\* dropping it; while one is, no other caller holds a guard of the cache;
\* and no caller has read an entry of which the value is written and the
\* expiry is not.
C20_WriterExclusion ==
    /\ Cardinality({c \in AddrCallers : apc[c] \in {"probe", "store"}}) <= 1
    /\ \A c \in AddrCallers :
         apc[c] \in {"probe", "store"} =>
            /\ cwriter = c
            /\ creaders = {}
            /\ \A o \in AddrCallers \ {c} :
                 apc[o] \in {"idle", "rwait", "wwait"}
    /\ \A c \in AddrCallers :
         aobs[c] # << >> => aobs[c][1].whole

\* a caller is assigning the cache while another waits for its read guard,
\* and an earlier caller has read a written entry
C20_Witness ==
    /\ \E c \in AddrCallers : apc[c] = "store"
    /\ \E c \in AddrCallers : apc[c] = "rwait"
    /\ \E c \in AddrCallers : aobs[c] # << >>

\* C21: a call that makes the lookups returns the address of
\* api.ipify.org if that answered one, else that of ipv4.icanhazip.com,
\* else the local address; it returns none only when all three failed, and
\* then the cache is as it was; when it returns an address, the cache holds
\* that address with the expiry one cache time after the time of the write.
C21_ResolutionOrder ==
    /\ [] ( \A c \in AddrCallers :
              (apc[c] = "idle" /\ ares[c] # << >> /\ ~ares[c][1].cached) =>
                 LET p == aprobe[c][1]
                     v == ares[c][1].value
                 IN  /\ p.first # << >> => v = p.first
                     /\ (p.first = << >> /\ p.second # << >>) => v = p.second
                     /\ (p.first = << >> /\ p.second = << >>) => v = p.local
                     /\ v = << >> =>
                          (p.first = << >> /\ p.second = << >>
                           /\ p.local = << >>) )
    /\ [][ \A c \in AddrCallers :
             (apc[c] \in {"probe", "store"} /\ apc'[c] = "idle") =>
                IF ares'[c][1].value = << >>
                  THEN cache' = cache
                  ELSE /\ cache' # << >>
                       /\ cache'[1].value = ares'[c][1].value[1]
                       /\ cache'[1].expires = anow + ADDR_CACHE_TIME ]_vars

\* a caller got the address of the second lookup after time had passed, and
\* another caller's lookups then all failed and left that entry in the cache
C21_Witness ==
    \E c, o \in AddrCallers :
      /\ ares[c] # << >>
      /\ ares[c][1].value = << <<93, 184, 216, 35>> >>
      /\ ares[c][1].time > 0
      /\ ares[o] # << >>
      /\ ~ares[o][1].cached
      /\ ares[o][1].value = << >>
      /\ cache # << >>
      /\ cache[1].value = <<93, 184, 216, 35>>

----------------------------------------------------------------------------
(* Claims about the telemetry                                              *)

\* C22: for every key that is not empty and every message of bytes below
\* 0x80, the cipher applied twice with the key gives the message back.
C22_Involution ==
    (xcount = 2 /\ xkey # << >> /\ \A i \in 1..Len(xmsg) : xmsg[i] < 128)
       => xtext = xmsg

\* a message longer than the key went through the cipher twice, with a key
\* that has a byte above 0x7F
C22_Witness ==
    /\ xcount = 2
    /\ xmsg = <<0, 127, 64>>
    /\ xkey = <<255, 0>>
    /\ xtext = xmsg

\* the buffer is one line "key=value": the key (before the first '=') and
\* the value (behind it)
OneLine(message) ==
    /\ \A i \in 1..Len(message) : message[i] # 10
    /\ \E i \in 1..Len(message) : message[i] = 61

LineKey(message) ==
    LET k == Min({i \in 1..Len(message) : message[i] = 61}) IN
    SubSeq(message, 1, k - 1)

LineValue(message) ==
    LET k == Min({i \in 1..Len(message) : message[i] = 61}) IN
    SubSeq(message, k + 1, Len(message))

\* C23: the value of a TLM3 line that holds a '-' is decoded to the bytes
\* behind the first '-', byte i being (body[i] XOR K[i mod |K|]) mod 0x80;
\* the value of a TLM3 line without '-' and the value of every other key
\* are kept as the debug representation of the bytes.
C23_Tlm3Line ==
    (ddecoded /\ OneLine(dmessage)) =>
        LET key    == LineKey(dmessage)
            v      == LineValue(dmessage)
            dashes == {i \in 1..Len(v) : v[i] = 45}
            body   == SubSeq(v, Min(dashes) + 1, Len(v))
        IN  /\ Len(dvalues) = 1
            /\ dvalues[1][2] =
                 IF key = <<84, 76, 77, 51>> /\ dashes # {}
                   THEN [i \in 1..Len(body) |->
                           xor(body[i], TLM3_KEY[((i - 1) % 27) + 1]) % 128]
                   ELSE fmt_debug(v)

\* a TLM3 line with two dashes, the second one is part of the body
C23_Witness ==
    /\ ddecoded
    /\ dmessage = <<84, 76, 77, 51, 61, 45, 97, 45>>
    /\ dvalues = << <<(<<84, 76, 77, 51>>), (<<53, 69>>)>> >>

\* the payload bytes a header of the given length field stands for
PayloadOf(length) == IF length > 12 THEN length - 12 ELSE 0

\* the bytes read_message has to take for the messages it returned
RECURSIVE TakenFor(_)
TakenFor(msgs) ==
    IF msgs = << >> THEN 0
    ELSE 12 + PayloadOf(Head(msgs).length) + TakenFor(Tail(msgs))

\* C24: for every length field, read_message reads max(length - 12, 0)
\* payload bytes, no more and no less; a length of 12 or less gives a
\* record without pairs and takes nothing behind the header.
C24_PayloadLength ==
    /\ tpc = "payload" => tneed = PayloadOf(tlen)
    /\ tpc = "post" => ttaken = TakenFor(tmsgs)
    /\ \A i \in DOMAIN tmsgs :
        /\ Len(tmsgs[i].payload) = PayloadOf(tmsgs[i].length)
        /\ tmsgs[i].length <= 12 =>
              tmsgs[i].payload = << >> /\ tmsgs[i].values = << >>

\* a header with the length 0 at the end of what the game has written gave
\* a record, and so did a header with the length 13 and one more byte
C24_Witness ==
    /\ Len(tmsgs) = 2
    /\ tmsgs[1].length = 13 /\ tmsgs[1].payload = <<120>>
    /\ tmsgs[2].length = 0 /\ tmsgs[2].avail = 0
    /\ tmsgs[2].values = << >>
    /\ ttaken = 25

\* C29: a POST that failed (an error of the connection, an error status)
\* does not end the connection: when a POST completes, whatever its
\* outcome, the task goes back to reading the next message, and the task
\* returns only for a failed read of the game's socket (or, before its
\* loop, for the lack of a target).
C29_BestEffort ==
    /\ [](tpc = "closed" => twhy \in {"no_target", "read"})
    /\ [][(tpc = "post" /\ tposts' # tposts) => tpc' = "header"]_vars

\* a POST that met an error was followed by the next message, whose POST
\* got an error status, and the task is reading again
C29_Witness ==
    /\ Len(tposts) = 2
    /\ tposts[1].outcome = "error"
    /\ tposts[2].outcome = "status"
    /\ Len(tmsgs) = 2
    /\ tpc = "header"

\* C30: a POST that has not completed does not hold back the read of the
\* next message: whenever the game has written a whole header that the
\* task has not taken from the stream, the task can take it, while it
\* reads and while it posts.
C30_NoBackPressure ==
    (tpc \in {"header", "post"} /\ Len(tstream) >= 12)
        => ENABLED TelemetryHeader

\* C37: for every input and every key that is not empty, xor_cipher gives
\* as many bytes as the input has, each below 0x80 (an ASCII character).
C37_OutputRange ==
    (xcount >= 1 /\ xkey # << >>) =>
        /\ Len(xtext) = Len(xmsg)
        /\ \A i \in 1..Len(xtext) : xtext[i] \in 0..127

\* a message with bytes above 0x7F under TLM3_KEY
C37_Witness ==
    /\ xcount = 1
    /\ xmsg = <<200, 255, 128, 45>>
    /\ xkey = TLM3_KEY
    /\ xtext = <<28, 23, 101, 13>>

----------------------------------------------------------------------------
(* Claims about the shared target and the listeners                        *)

\* C25: whatever the interleaving of the calls of try_update_host and of
\* the reads, a read gives no target or the whole LookupData of one
\* lookup, and it is the one stored last before the read: the reads agree
\* with the order of the writes.
C25_TargetAtomicity ==
    \A i \in DOMAIN tobs :
        /\ \/ tobs[i].value = Nothing
           \/ \E k \in DOMAIN twrites : tobs[i].value = Some(twrites[k])
        /\ tobs[i].value =
             IF tobs[i].at = 0 THEN Nothing ELSE Some(twrites[tobs[i].at])

\* two calls have stored the two servers' data, and a listener has read
\* the one after the first write and the other after the second
C25_Witness ==
    /\ Len(twrites) = 2
    /\ twrites[1] # twrites[2]
    /\ Len(tobs) = 2
    /\ tobs[1].value = Some(twrites[1])
    /\ tobs[2].value = Some(twrites[2])
    /\ upc[1] = "done" /\ upc[2] = "done"
    /\ ures[1] # ures[2]

\* every call of try_update_host has returned
AllReturned == \A c \in Updaters : upc[c] \in {"idle", "done"}

ServerKinds == {"redirector", "blaze", "http", "tunnel", "qos", "telemetry"}

\* C26: start_all_servers stops the running group before it spawns; after
\* every call the tasks alive are the six of that call (but those that
\* have returned by themselves), none of an earlier call, and at no time
\* are two tasks of one kind alive.
C26_Idempotent ==
    /\ \A t1, t2 \in stasks : t1.kind = t2.kind => t1 = t2
    /\ (spc = 0 /\ sgen > 0) =>
          stasks = { [kind |-> k, call |-> sgen] : k \in ServerKinds \ sended }
    /\ spc \notin {0, 1} => \A t \in stasks : t.call = sgen

\* a second call has returned and its six tasks are alive
C26_Witness ==
    /\ spc = 0
    /\ sgen = 2
    /\ Cardinality(stasks) = 6
    /\ \A t \in stasks : t.call = 2

\* C27: when a listener fails to bind its port and the error has been
\* shown, the process goes on running, and every other listener that
\* listens can still accept.
C27_SetupIsolation ==
    \A f \in lshown :
        /\ prunning
        /\ \A l \in Listeners \ {f} :
              (lstate[l] = "listening" /\ lserved[l] < MaxServed)
                 => ENABLED ListenerServe

\* C39: a TCP listener (redirector, main, HTTP proxy, telemetry) to which
\* accept has returned an error is still in its accept loop.
C39_AcceptErrorSurvived ==
    \A l \in {"redirector", "main", "http", "telemetry"} :
        lerrors[l] > 0 => lstate[l] = "listening"

\* C28: while no target is published, the reply of the redirector to the
\* (0x0005, 0x0001) request is an empty Response, not the address record.
C28_RedirectWithoutTarget ==
    \A i \in 1..Len(sent) :
        (TARGET = Nothing /\ IsGetServerInstance(reqs[i])) =>
            /\ sent[i].contents = << >>
            /\ sent[i].contents # AddressRecord

\* the URL of the telemetry endpoint of a target
EndpointOf(target) == Url_join(base_url(target), TELEMETRY_ENDPOINT).ok

\* C40: every record is POSTed to the telemetry endpoint of the target
\* that is published when the record is forwarded, and a connection that
\* was accepted while no target is published forwards nothing.
C40_TargetPerRecord ==
    /\ \A i \in 1..Len(tposts) :
          tmsgs[i].target # Nothing =>
              tposts[i].url = EndpointOf(tmsgs[i].target[1])
    /\ twhy = "no_target" => tposts = << >>

----------------------------------------------------------------------------
(* Claims about the hosts file                                             *)

\* C31: after apply and the drop of its guard (both without an error of
\* the file system) the hosts file has the lines it had before apply; if
\* an entry of gosredirector.ea.com was there before apply, the file is
\* not changed at all; the lines that are no such entry are kept, in their
\* order, by apply and by drop.
C31_HostsRoundTrip ==
    LET NotEntry(line) == ~is_host_line(line)
        HadEntry == \E i \in DOMAIN lines(eorig) : is_host_line(lines(eorig)[i])
    IN
    /\ (epc = "dropped" /\ edrop \in {"kept", "removed"}) =>
          lines(efile) = lines(eorig)
    /\ (epc \in {"applied", "dropped"} /\ HadEntry) => efile = eorig
    /\ (epc = "applied" \/ (epc = "dropped" /\ edrop # "failed")) =>
          SelectSeq(lines(efile), NotEntry) = SelectSeq(lines(eorig), NotEntry)

====
